---- MODULE Spec2Model ----
(***************************************************************************)
(* ROM Librarian: the rename planner with undo (regex flow and DAT flow),  *)
(* the duplicate tree (keep/delete marks, group check boxes, deletion),    *)
(* the persistent hash cache of the Duplicates and Compare tabs, and the   *)
(* worker threads the tabs start.                                          *)
(*                                                                         *)
(* One folder is modelled.  A file name is a record [stem, sfx]: sfx is the *)
(* sequence of "_<n>" suffixes before the extension, so "Game_1.zip" is    *)
(* [stem |-> "Game", sfx |-> <<1>>].  The file system is case sensitive.   *)
(***************************************************************************)
EXTENDS Integers, Sequences, FiniteSets, TLC

VARIABLES
    disk,               \* the folder: file name -> content
    files_data,         \* ROMManager.files_data: the loaded listing (names)
    rename_button,      \* RenameTab.rename_button state
    preview_existing,   \* preview_rename: existing_collisions it displayed
    undo_history,       \* RenameTab.undo_history
    rename_results,     \* the results dict shared with the rename worker
    final_rename_plan,  \* the plan handed to the rename worker
    ren_pc,             \* "idle", or the rename worker's position: "running" |
                        \* "finished" (callback queued), "dat_" before it on the DAT tab
    ren_idx,            \* index of the next plan entry of the worker
    worker_undo,        \* _perform_renames' local undo_history
    dat_matched_files,  \* DATRenameTab.dat_matched_files
    dat_results_tree,   \* DATRenameTab.dat_results_tree rows
    dat_execute_button, \* DATRenameTab.dat_execute_button state
    pre_disk,           \* history: the folder when the batch was planned
    batch_log,          \* history: <<new, old>> of the renames that succeeded
    last_op,            \* history: "none" | "batch" | "undo"
    batches,            \* history: number of batches started
    external,           \* history: files other programs put in the folder
    dup_files,          \* the scanned folder: path -> [hash, mtime]
    duplicate_groups,   \* DuplicatesTab.duplicate_groups, in insertion order
    dup_tree,           \* DuplicatesTab.dup_tree: groups and their children
    group_selection,    \* DuplicatesTab.group_selection of the shown groups
    del_pc,             \* "idle" | "running" | "display" (redisplay queued)
    files_to_delete,    \* delete_duplicates: the list handed to the worker
    del_idx,            \* index of the next file of delete_worker
    del_marked,         \* history: Delete-marked files of checked groups
    del_unchecked,      \* history: files of the groups unchecked at Delete
    removed,            \* history: files the delete operation removed
    cache_fs,           \* the hashed folders: path -> [content, mtime]
    hash_cache_file,    \* HASH_CACHE_FILE: the persisted cache
    dup_hash_cache,     \* DuplicatesTab.hash_cache
    cmp_hash_cache,     \* CompareTab.hash_cache
    cached_at,          \* history: path, size, mtime, method of each store
    lookups,            \* history: path -> its latest hash lookup
    persisted_ever,     \* history: keys the persisted cache has held
    cache_steps,        \* history: number of scans, compares and restarts
    writes,             \* history: number of file changes
    threads,            \* the worker threads: slot -> [kind, pc, walk, idx]
    after_queue,        \* callbacks queued with root.after, oldest first
    ui_writes,          \* history: [thread, widget] of every UI write
    dat_scan_running,   \* DATRenameTab.dat_scan_running
    dat_scan_cancelled, \* DATRenameTab.dat_scan_cancelled
    dat_start_scan_button, \* DATRenameTab.dat_start_scan_button state
    dat_stop_scan_button,  \* DATRenameTab.dat_stop_scan_button state
    dat_hash_map,       \* DATRenameTab.dat_hash_map: hash -> name
    scan_starts,        \* history: number of scans and compares started
    scan_flagged,       \* history: slot -> Stop was clicked with files left
    terminals,          \* history: slot -> terminal states its scan queued
    rt_flow,            \* which tab's rename worker runs: "regex" | "dat"
    attempt,            \* _perform_renames: attempt of the retry loop
    attempt_log,        \* history: the calls made for the current entry
    entry_result,       \* history: "none" | "success" | "failed"
    entry_outcomes,     \* history: plan index of every recorded outcome
    undo_errors,        \* undo_rename: the errors list of the last undo
    undo_success,       \* undo_rename: success_count of the last undo
    cue_files,          \* the folder's .cue sheets: name -> FILE references
    cue_updates_needed, \* the rename worker's cue_updates_needed
    cue_pre,            \* history: the .cue sheets when the batch started
    dat_undo_history,   \* DATRenameTab.dat_undo_history
    gamelist,           \* gamelist.xml: <<>> or <<the <path> of every game>>
    gamelist_backup,    \* gamelist.xml.backup: <<>> or <<the paths it holds>>
    gl_before,          \* history: tab -> gamelist.xml before its last batch
    gl_last,            \* history: the last batch shown or undo run, and its tab
    rename_plan,        \* history: the candidates of the last batch, before
                        \* the collisions were resolved
    collision_strategy, \* RenameTab.collision_strategy, as the last batch read it
    dat_entries,        \* the <game> and <machine> entries of the DAT file
    hash_to_name,       \* parse_dat_file: the dict it returns
    scan_file,          \* the file the DAT scan is looking at: path, content
    scan_hashes,        \* what calculate_file_hashes gave for it, or the error
    matched_name,       \* _dat_scan_worker: new_name, "" for None
    match_pc,           \* "idle" | "loaded" | "done"
    collections,        \* side -> the files under the collection's folder
    compare_filter_mode, \* CompareTab.compare_filter_mode
    compare_results,    \* CompareTab.compare_results
    compare_selection,  \* side -> the rows whose checkbox is checked
    cmp_pc,             \* "idle" | "compared"
    included,           \* history: side -> files should_include_file let in
    copy_overwrote,     \* history: files a copy wrote over
    copies,             \* history: number of copies made
    unreadable,         \* the paths _hash_file cannot read
    cache_file_state,   \* HASH_CACHE_FILE: "missing" | "json" | "unreadable" | "corrupt"
    persist_log         \* history: the last load or save of the cache file

vars == <<disk, files_data, rename_button, preview_existing, undo_history,
          rename_results, final_rename_plan, ren_pc, ren_idx, worker_undo,
          dat_matched_files, dat_results_tree, dat_execute_button,
          pre_disk, batch_log, last_op, batches, external,
          dup_files, duplicate_groups, dup_tree, group_selection, del_pc,
          files_to_delete, del_idx, del_marked, del_unchecked, removed,
          cache_fs, hash_cache_file, dup_hash_cache, cmp_hash_cache,
          cached_at, lookups, persisted_ever, cache_steps, writes,
          threads, after_queue, ui_writes, dat_scan_running,
          dat_scan_cancelled, dat_start_scan_button, dat_stop_scan_button,
          dat_hash_map, scan_starts, scan_flagged, terminals,
          rt_flow, attempt, attempt_log, entry_result, entry_outcomes,
          undo_errors, undo_success, cue_files, cue_updates_needed,
          cue_pre, dat_undo_history, gamelist, gamelist_backup, gl_before,
          gl_last, rename_plan, collision_strategy, dat_entries, hash_to_name,
          scan_file, scan_hashes, matched_name, match_pc, collections,
          compare_filter_mode, compare_results, compare_selection, cmp_pc,
          included, copy_overwrote, copies, unreadable, cache_file_state,
          persist_log>>

\* the state of the two rename tabs and their folder
renameVars == <<disk, files_data, rename_button, preview_existing,
                undo_history, rename_results, final_rename_plan, ren_pc,
                ren_idx, worker_undo, dat_matched_files, dat_results_tree,
                dat_execute_button, pre_disk, batch_log, last_op, batches,
                external, dat_undo_history>>

\* the state of the Duplicates tab and its folder
dupVars == <<dup_files, duplicate_groups, dup_tree, group_selection, del_pc,
             files_to_delete, del_idx, del_marked, del_unchecked, removed>>

\* the hash cache, its two in-memory copies and the hashed files
cacheVars == <<cache_fs, hash_cache_file, dup_hash_cache, cmp_hash_cache,
               cached_at, lookups, persisted_ever, cache_steps, writes>>

\* the worker threads, the main loop's queue and the scan controls
scanVars == <<threads, after_queue, ui_writes, dat_scan_running,
              dat_scan_cancelled, dat_start_scan_button, dat_stop_scan_button,
              dat_hash_map, scan_starts, scan_flagged, terminals>>

\* the retry loop of the rename worker and its history
retryVars == <<rt_flow, attempt, attempt_log, entry_result, entry_outcomes>>

\* what Undo reports
undoVars == <<undo_errors, undo_success>>

\* the .cue sheets of the folder and the worker's list of renamed .bin
cueVars == <<cue_files, cue_updates_needed, cue_pre>>

\* gamelist.xml, its backup and their history
gamelistVars == <<gamelist, gamelist_backup, gl_before, gl_last>>

\* the candidates and the strategy of the last batch
planVars == <<rename_plan, collision_strategy>>

\* one file looked up in the index of a DAT file
matchVars == <<dat_entries, hash_to_name, scan_file, scan_hashes, matched_name,
               match_pc>>

\* the Compare tab, its two collections and the history of its copies
compareVars == <<collections, compare_filter_mode, compare_results,
                 compare_selection, cmp_pc, included, copy_overwrote, copies>>

\* what the rename, duplicates and cache handlers never touch
\* the state of the cache file and the history of its loads and saves
persistVars == <<cache_file_state, persist_log>>

otherVars == <<matchVars, compareVars, unreadable, persistVars>>

\* the state of the rename, duplicates and cache tabs
tabVars == <<renameVars, dupVars, cacheVars, scanVars, retryVars, undoVars,
             cueVars, gamelistVars, planVars, unreadable, persistVars>>

\* what loading a DAT file and looking a file up leave alone
notMatch == <<tabVars, compareVars>>

\* what the Compare tab leaves alone
notCompare == <<tabVars, matchVars>>

\* what loading and saving the cache file leave alone
notPersist == <<renameVars, dupVars, scanVars, retryVars, undoVars, cueVars,
                gamelistVars, planVars, matchVars, compareVars, unreadable>>

\* what the handlers of the rename tabs leave alone
notTabs == <<dupVars, cacheVars, scanVars, retryVars, cueVars, otherVars>>

\* what Undo leaves alone
notUndo == <<notTabs, planVars>>

\* what the rename tabs leave alone
notRename == <<notUndo, undoVars, gamelistVars>>

\* what the Duplicates tab's tree and delete handlers leave alone
notDup == <<renameVars, cacheVars, scanVars, retryVars, undoVars,
           cueVars, gamelistVars, planVars, otherVars>>

\* what hashing and the cache leave alone
notCache == <<renameVars, dupVars, scanVars, retryVars, undoVars,
             cueVars, gamelistVars, planVars, otherVars>>

\* the state of the DAT rename tab
datVars == <<dat_matched_files, dat_results_tree, dat_execute_button,
             dat_undo_history>>

\* the state of the regex rename tab that the DAT flow leaves alone
regexVars == <<files_data, rename_button, preview_existing, worker_undo,
               undo_history>>

---------------------------------------------------------------------------
(* Bounds *)

MaxFiles == 3
MaxBatches == 1
MaxDatBatches == 2
MaxExternal == 1
MaxDupFiles == 4
MaxCacheSteps == 2
MaxWrites == 1
MaxThreads == 2
MaxStarts == 2
MaxUndoLog == 3
MaxGames == 2

---------------------------------------------------------------------------
(* File names *)

Stems == {"a", "A", "b"}

\* names a folder starts with, and names a regex or a DAT entry can produce
BaseNames == [stem : Stems, sfx : {<<>>}] \cup {[stem |-> "a", sfx |-> <<1>>]}

\* what a file of the starting folder holds: one content per file
ContentOf(n) ==
    IF n.sfx # <<>> THEN "c4"
    ELSE IF n.stem = "a" THEN "c1" ELSE IF n.stem = "A" THEN "c2" ELSE "c3"

\* str.lower() of a name
Lower(n) == [n EXCEPT !.stem = IF @ = "A" THEN "a" ELSE @]

StemRank(s) == IF s = "b" THEN 2 ELSE 1

RECURSIVE SeqLess(_, _)
SeqLess(s, t) ==
    IF s = <<>> THEN t # <<>>
    ELSE IF t = <<>> THEN FALSE
    ELSE IF Head(s) # Head(t) THEN Head(s) < Head(t)
    ELSE SeqLess(Tail(s), Tail(t))

\* x[0].lower() < y[0].lower(), the sort key of load_files
KeyLess(m, n) ==
    \/ StemRank(m.stem) < StemRank(n.stem)
    \/ StemRank(m.stem) = StemRank(n.stem) /\ SeqLess(m.sfx, n.sfx)

Exists(d, n) == n \in DOMAIN d

\* os.rename on a folder with no file at new
Move(d, old, new) ==
    [n \in (DOMAIN d \ {old}) \cup {new} |-> IF n = new THEN d[old] ELSE d[n]]

\* load_files: the listing sorted by lower-cased name; names with equal keys
\* stay in os.listdir order, which is any order
Listings(d) ==
    {s \in [1..Cardinality(DOMAIN d) -> DOMAIN d] :
        /\ \A i, j \in DOMAIN s : i # j => s[i] # s[j]
        /\ \A i, j \in DOMAIN s : i < j => ~KeyLess(s[j], s[i])}

---------------------------------------------------------------------------
(* Rename planner, regex flow *)

Strategies == {"skip", "keep_first", "suffix"}

Range(s) == {s[i] : i \in DOMAIN s}

\* execute_rename, first loop: candidates whose new name differs
RECURSIVE RenamePlan(_, _, _)
RenamePlan(files, pattern, selected) ==
    IF files = <<>> THEN <<>>
    ELSE LET f == Head(files)
             rest == RenamePlan(Tail(files), pattern, selected)
         IN IF (selected # {} /\ f \notin selected) \/ pattern[f] = f
            THEN rest
            ELSE <<[old |-> f, new |-> pattern[f]]>> \o rest

\* collision_groups: keys in first-insertion order
RECURSIVE GroupKeys(_, _)
GroupKeys(plan, seen) ==
    IF plan = <<>> THEN <<>>
    ELSE LET k == Lower(Head(plan).new)
         IN IF k \in seen THEN GroupKeys(Tail(plan), seen)
            ELSE <<k>> \o GroupKeys(Tail(plan), seen \cup {k})

RECURSIVE GroupOf(_, _)
GroupOf(plan, k) ==
    IF plan = <<>> THEN <<>>
    ELSE IF Lower(Head(plan).new) = k
         THEN <<Head(plan)>> \o GroupOf(Tail(plan), k)
         ELSE GroupOf(Tail(plan), k)

\* f"{name_parts[0]}_{idx + 1}{name_parts[1]}"
Suffixed(n, idx) == [n EXCEPT !.sfx = Append(@, idx)]

SuffixGroup(group) ==
    [i \in DOMAIN group |->
        [old |-> group[i].old, new |-> Suffixed(group[i].new, i)]]

ResolveGroup(group, strategy) ==
    IF Len(group) = 1 THEN group
    ELSE IF strategy = "skip" THEN <<>>
    ELSE IF strategy = "keep_first" THEN <<group[1]>>
    ELSE SuffixGroup(group)

RECURSIVE ResolveAll(_, _, _)
ResolveAll(keys, plan, strategy) ==
    IF keys = <<>> THEN <<>>
    ELSE ResolveGroup(GroupOf(plan, Head(keys)), strategy)
            \o ResolveAll(Tail(keys), plan, strategy)

FinalRenamePlan(plan, strategy) ==
    ResolveAll(GroupKeys(plan, {}), plan, strategy)

SkippedCount(plan, strategy) == Len(plan) - Len(FinalRenamePlan(plan, strategy))

\* preview_rename: targets that exist on disk and are no loaded file's name
ExistingCollisions(d, files, pattern) ==
    {pattern[f] : f \in {g \in Range(files) : pattern[g] # g}}
        \cap {n \in DOMAIN d : n \notin Range(files)}

NoResults ==
    [success_count |-> 0, error_count |-> 0, errors |-> <<>>,
     skipped_count |-> 0, undo_history |-> <<>>]

Patterns == [Range(files_data) -> BaseNames]

PreviewRename ==
    /\ ren_pc = "idle"
    /\ batches < MaxBatches
    /\ \E pattern \in Patterns :
        /\ preview_existing' = ExistingCollisions(disk, files_data, pattern)
        /\ rename_button' =
              IF \E f \in Range(files_data) : pattern[f] # f
              THEN "normal" ELSE "disabled"
    /\ UNCHANGED <<disk, files_data, undo_history, rename_results,
                   final_rename_plan, ren_pc, ren_idx, worker_undo,
                   datVars, pre_disk, batch_log, last_op, batches,
                   external, notRename>>

ExecuteRename ==
    /\ ren_pc = "idle"
    /\ rename_button = "normal"
    /\ batches < MaxBatches
    /\ \E pattern \in Patterns, selected \in SUBSET Range(files_data),
          strategy \in Strategies :
        LET plan == RenamePlan(files_data, pattern, selected)
        IN /\ final_rename_plan' = FinalRenamePlan(plan, strategy)
           /\ rename_plan' = plan
           /\ collision_strategy' = strategy
           /\ rename_results' =
                 [NoResults EXCEPT !.skipped_count = SkippedCount(plan, strategy)]
    /\ ren_pc' = "running"
    /\ ren_idx' = 1
    /\ worker_undo' = <<>>
    /\ pre_disk' = disk
    /\ batch_log' = <<>>
    /\ last_op' = "batch"
    /\ batches' = batches + 1
    /\ UNCHANGED <<disk, files_data, rename_button, preview_existing,
                   undo_history, datVars, external, notTabs, undoVars,
                   gamelistVars>>

\* _perform_renames, one plan entry: the destination check, then os.rename,
\* which the operating system lets succeed or fail
PerformRename ==
    /\ ren_pc = "running"
    /\ ren_idx <= Len(final_rename_plan)
    /\ LET e == final_rename_plan[ren_idx]
       IN \/ /\ Exists(disk, e.new)
             /\ rename_results' =
                   [rename_results EXCEPT
                       !.errors = Append(@, [name |-> e.old, why |-> "exists"]),
                       !.error_count = @ + 1]
             /\ UNCHANGED <<disk, worker_undo, batch_log>>
          \/ /\ ~Exists(disk, e.new)
             /\ Exists(disk, e.old)
             /\ disk' = Move(disk, e.old, e.new)
             /\ worker_undo' = Append(worker_undo, <<e.new, e.old>>)
             /\ batch_log' = Append(batch_log, <<e.new, e.old>>)
             /\ rename_results' = [rename_results EXCEPT !.success_count = @ + 1]
          \/ /\ ~Exists(disk, e.new)
             /\ rename_results' =
                   [rename_results EXCEPT
                       !.errors = Append(@, [name |-> e.old, why |-> "oserror"]),
                       !.error_count = @ + 1]
             /\ UNCHANGED <<disk, worker_undo, batch_log>>
    /\ ren_idx' = ren_idx + 1
    /\ UNCHANGED <<files_data, rename_button, preview_existing, undo_history,
                   final_rename_plan, ren_pc, datVars, pre_disk,
                   last_op, batches, external, notRename>>

\* _perform_renames, after the loop: results['undo_history'] = undo_history,
\* and the worker queues _show_rename_results
FinishRenames ==
    /\ ren_pc = "running"
    /\ ren_idx > Len(final_rename_plan)
    /\ rename_results' = [rename_results EXCEPT !.undo_history = worker_undo]
    /\ ren_pc' = "finished"
    /\ UNCHANGED <<disk, files_data, rename_button, preview_existing,
                   undo_history, final_rename_plan, ren_idx, worker_undo,
                   datVars, pre_disk, batch_log, last_op, batches,
                   external, notRename>>

\* update_gamelist_xml: the <game> entries whose <path> names a renamed
\* file (the model's names are no suffix of one another, so endswith is
\* equality)
Updated(paths, log) ==
    {i \in DOMAIN paths : \E k \in DOMAIN log : log[k][2] = paths[i]}

\* update_gamelist_xml: the paths after the renames of rename_map
UpdatedPaths(paths, log) ==
    [i \in DOMAIN paths |->
        IF i \in Updated(paths, log)
        THEN LET hits == {k \in DOMAIN log : log[k][2] = paths[i]}
             IN log[CHOOSE k \in hits : \A m \in hits : k <= m][1]
        ELSE paths[i]]

\* _update_gamelist_if_enabled and update_gamelist_xml: gamelist.xml is
\* rewritten when the box is checked, a rename succeeded, the file exists
\* and updates_made > 0
Rewrites(gl, checked, log, success_count) ==
    /\ checked
    /\ success_count # 0
    /\ gl # <<>>
    /\ Updated(gl[1], log) # {}

\* update_gamelist_xml: gamelist.xml after the call
UpdateGamelist(gl, checked, log, success_count) ==
    IF Rewrites(gl, checked, log, success_count)
    THEN <<UpdatedPaths(gl[1], log)>> ELSE gl

\* update_gamelist_xml: gamelist.xml.backup after the call
BackupGamelist(gl, backup, checked, log, success_count) ==
    IF Rewrites(gl, checked, log, success_count) THEN gl ELSE backup

\* _restore_gamelist_backup: gamelist.xml after the call
RestoreGamelist(gl, backup) == IF backup # <<>> THEN backup ELSE gl

Tabs == {"regex", "dat"}

\* _show_rename_results, on the main thread
ShowRenameResults ==
    /\ ren_pc = "finished"
    /\ undo_history' = rename_results.undo_history
    /\ \E checked \in BOOLEAN :
        LET log == rename_results.undo_history
            n == rename_results.success_count
        IN /\ gamelist' = UpdateGamelist(gamelist, checked, log, n)
           /\ gamelist_backup' =
                 BackupGamelist(gamelist, gamelist_backup, checked, log, n)
           /\ gl_before' =
                 [gl_before EXCEPT !["regex"] =
                     [content |-> gamelist,
                      rewrote |-> Rewrites(gamelist, checked, log, n)]]
    /\ gl_last' = [op |-> "batch", tab |-> "regex"]
    /\ files_data' \in Listings(disk)
    /\ rename_button' = "disabled"
    /\ preview_existing' = {}
    /\ ren_pc' = "idle"
    /\ UNCHANGED <<disk, rename_results, final_rename_plan, ren_idx,
                   worker_undo, datVars, pre_disk, batch_log,
                   last_op, batches, external, notUndo, undoVars>>

\* an undo loop that only looks for the renamed file
RECURSIVE UndoLoopOverwrite(_, _)
UndoLoopOverwrite(d, log) ==
    IF log = <<>> THEN d
    ELSE LET current == Head(log)[1]
             original == Head(log)[2]
         IN IF ~Exists(d, current)
            THEN UndoLoopOverwrite(d, Tail(log))
            ELSE UndoLoopOverwrite(Move(d, current, original), Tail(log))

\* undo_rename / undo_dat_rename: the loop over the log, first entry first
RECURSIVE UndoLoop(_, _)
UndoLoop(d, log) ==
    IF log = <<>> THEN d
    ELSE LET current == Head(log)[1]
             original == Head(log)[2]
         IN IF ~Exists(d, current) \/ Exists(d, original)
            THEN UndoLoop(d, Tail(log))
            ELSE UndoLoop(Move(d, current, original), Tail(log))

\* undo_rename / undo_dat_rename: the errors list of the loop
RECURSIVE UndoErrors(_, _, _)
UndoErrors(d, log, i) ==
    IF log = <<>> THEN <<>>
    ELSE LET current == Head(log)[1]
             original == Head(log)[2]
         IN IF ~Exists(d, current)
            THEN <<[idx |-> i, why |-> "File not found"]>>
                    \o UndoErrors(d, Tail(log), i + 1)
            ELSE IF Exists(d, original)
            THEN <<[idx |-> i, why |-> "Original filename already exists"]>>
                    \o UndoErrors(d, Tail(log), i + 1)
            ELSE UndoErrors(Move(d, current, original), Tail(log), i + 1)

UndoRename ==
    /\ ren_pc = "idle"
    /\ undo_history # <<>>
    /\ disk' = UndoLoop(disk, undo_history)
    /\ undo_errors' = UndoErrors(disk, undo_history, 1)
    /\ undo_success' = Len(undo_history) - Len(undo_errors')
    /\ gamelist' = RestoreGamelist(gamelist, gamelist_backup)
    /\ gamelist_backup' = <<>>
    /\ gl_last' = [op |-> "undo", tab |-> "regex"]
    /\ undo_history' = <<>>
    /\ files_data' \in Listings(disk')
    /\ preview_existing' = {}
    /\ last_op' = "undo"
    /\ UNCHANGED <<rename_button, rename_results, final_rename_plan, ren_pc,
                   ren_idx, worker_undo, datVars, pre_disk,
                   batch_log, batches, external, notUndo, gl_before>>

\* another program puts a file in the folder
ExternalCreate ==
    /\ Len(external) < MaxExternal
    /\ \E n \in BaseNames \ DOMAIN disk :
        /\ disk' = [m \in DOMAIN disk \cup {n} |-> IF m = n THEN "cx" ELSE disk[m]]
        /\ external' = Append(external, [name |-> n, during |-> last_op])
    /\ UNCHANGED <<files_data, rename_button, preview_existing, undo_history,
                   rename_results, final_rename_plan, ren_pc, ren_idx,
                   worker_undo, datVars, pre_disk, batch_log,
                   last_op, batches, notRename>>

---------------------------------------------------------------------------
(* The regex rename flow *)

Folders ==
    {[n \in S |-> ContentOf(n)] :
        S \in {T \in SUBSET BaseNames : Cardinality(T) \in 1..MaxFiles}}

\* no DAT file parsed and no file looked up
MatchIdle ==
    /\ dat_entries = <<>>
    /\ hash_to_name = <<>>
    /\ scan_file = [path |-> "", content |-> ""]
    /\ scan_hashes = [error |-> FALSE, digests |-> <<>>]
    /\ matched_name = ""
    /\ match_pc = "idle"

\* CompareTab.__init__, with no collection chosen
CompareIdle ==
    /\ collections = [side \in {"a", "b"} |-> {}]
    /\ compare_filter_mode = "rom_only"
    /\ compare_results = [mode |-> "none", only_a |-> {}, only_b |-> {},
                          both |-> {}, corrupted |-> {},
                          filtered_a |-> 0, filtered_b |-> 0]
    /\ compare_selection = [side \in {"a", "b"} |-> {}]
    /\ cmp_pc = "idle"
    /\ included = [side \in {"a", "b"} |-> {}]
    /\ copy_overwrote = {}
    /\ copies = 0

\* no cache file, and no load or save yet
PersistIdle ==
    /\ cache_file_state = "missing"
    /\ persist_log = [op |-> "none", file |-> "", fault |-> "", raised |-> "",
                      cache |-> <<>>, completed |-> FALSE]

\* the parts of the program the rename, duplicates and cache tabs never touch
OthersIdle ==
    /\ MatchIdle
    /\ CompareIdle
    /\ unreadable = {}
    /\ PersistIdle

\* load_hash_cache with no cache file, and nothing hashed
CacheIdle ==
    /\ cache_fs = <<>>
    /\ hash_cache_file = <<>>
    /\ dup_hash_cache = <<>>
    /\ cmp_hash_cache = <<>>
    /\ cached_at = {}
    /\ lookups = <<>>
    /\ persisted_ever = {}
    /\ cache_steps = 0
    /\ writes = 0

\* a thread slot with no worker running
NoThread == [kind |-> "none", pc |-> "", walk |-> <<>>, idx |-> 0]

\* DATRenameTab.__init__: no scan running, Start enabled, Stop disabled
ScanControlsIdle ==
    /\ threads = [t \in 1..MaxThreads |-> NoThread]
    /\ after_queue = <<>>
    /\ ui_writes = {}
    /\ dat_scan_running = FALSE
    /\ dat_scan_cancelled = FALSE
    /\ dat_start_scan_button = "normal"
    /\ dat_stop_scan_button = "disabled"
    /\ scan_starts = 0
    /\ scan_flagged = [t \in 1..MaxThreads |-> FALSE]
    /\ terminals = [t \in 1..MaxThreads |-> <<>>]

\* no worker thread and no DAT file loaded
ScanIdle ==
    /\ ScanControlsIdle
    /\ dat_hash_map = <<>>

\* DuplicatesTab.__init__, with no folder scanned
DupIdle ==
    /\ dup_files = <<>>
    /\ duplicate_groups = <<>>
    /\ dup_tree = <<>>
    /\ group_selection = <<>>
    /\ del_pc = "idle"
    /\ files_to_delete = <<>>
    /\ del_idx = 1
    /\ del_marked = {}
    /\ del_unchecked = {}
    /\ removed = {}

\* a folder with no .cue sheet
CueIdle ==
    /\ cue_files = <<>>
    /\ cue_updates_needed = <<>>
    /\ cue_pre = <<>>

\* a folder with no gamelist.xml; no batch and no undo yet
GamelistIdle ==
    /\ gamelist = <<>>
    /\ gamelist_backup = <<>>
    /\ gl_before = [t \in {"regex", "dat"} |->
                        [content |-> <<>>, rewrote |-> FALSE]]
    /\ gl_last = [op |-> "none", tab |-> ""]

\* RenameTab.__init__: the strategy is "skip"; no batch planned yet
PlanIdle ==
    /\ rename_plan = <<>>
    /\ collision_strategy = "skip"

\* no rename worker has run
RetryIdle ==
    /\ rt_flow = "regex"
    /\ attempt = 0
    /\ attempt_log = <<>>
    /\ entry_result = "none"
    /\ entry_outcomes = <<>>
    /\ undo_errors = <<>>
    /\ undo_success = 0

\* RenameTab.__init__ and the history variables before any batch
RenameIdle ==
    /\ RetryIdle
    /\ PlanIdle
    /\ rename_button = "disabled"
    /\ preview_existing = {}
    /\ undo_history = <<>>
    /\ rename_results = NoResults
    /\ final_rename_plan = <<>>
    /\ ren_pc = "idle"
    /\ ren_idx = 1
    /\ worker_undo = <<>>
    /\ batch_log = <<>>
    /\ last_op = "none"
    /\ batches = 0
    /\ external = <<>>

\* DATRenameTab.__init__
DatIdle ==
    /\ dat_undo_history = <<>>
    /\ dat_matched_files = <<>>
    /\ dat_results_tree = <<>>
    /\ dat_execute_button = "disabled"

InitRegex ==
    /\ OthersIdle
    /\ ScanIdle
    /\ CueIdle
    /\ GamelistIdle
    /\ disk \in Folders
    /\ pre_disk = disk
    /\ files_data \in Listings(disk)
    /\ RenameIdle
    /\ DatIdle
    /\ DupIdle
    /\ CacheIdle

NextRegex ==
    \/ PreviewRename
    \/ ExecuteRename
    \/ PerformRename
    \/ FinishRenames
    \/ ShowRenameResults
    \/ UndoRename
    \/ ExternalCreate

SpecRegex == InitRegex /\ [][NextRegex]_vars

---------------------------------------------------------------------------
(* Claims on the regex rename flow *)

\* C1: before a rename batch executes, no two entries of the final rename
\* plan have the same new_path, whatever the candidates and the collision
\* strategy, suffix-generated names included.
C1_PlanTargetsDistinct ==
    \A i, j \in DOMAIN final_rename_plan :
        i # j => final_rename_plan[i].new # final_rename_plan[j].new

\* C2: a target that exists on disk when the batch is planned is resolved at
\* planning time, so executing the plan records no "Destination already
\* exists" failure (no other program touched the folder).
C2_NoDestinationExistsFailure ==
    external = <<>> =>
        \A i \in DOMAIN rename_results.errors :
            rename_results.errors[i].why # "exists"

\* the folder was left alone between the batch and its undo
Undisturbed == \A i \in DOMAIN external : external[i].during = "none"

NewPaths == {batch_log[i][1] : i \in DOMAIN batch_log}
OldPaths == {batch_log[i][2] : i \in DOMAIN batch_log}

\* C3: after a batch and then Undo, with no other change in between, every
\* renamed file is back at its original path with its original content and
\* no file is left at a new path of the batch.
C3_UndoRestoresBatch ==
    (last_op = "undo" /\ Undisturbed) =>
        /\ \A old \in OldPaths : Exists(disk, old) /\ disk[old] = pre_disk[old]
        /\ \A new \in NewPaths \ DOMAIN pre_disk : ~Exists(disk, new)

---------------------------------------------------------------------------
(* Rename planner, DAT flow.  The folder holds no .bin/.cue pair and no    *)
(* gamelist.xml, and every file can be read for hashing.                   *)

\* a hash the DAT file does not list
Unlisted == [stem |-> "", sfx |-> <<>>]

\* names a DAT file gives (new_name + ext)
DatNames == {[stem |-> "a", sfx |-> <<>>], [stem |-> "A", sfx |-> <<>>]}

\* dat_hash_map: hash of a content -> name, for the contents in the folder
Dats(d) == [{d[n] : n \in DOMAIN d} -> DatNames \cup {Unlisted}]

\* os.walk: the files in any order
Walks(d) ==
    {s \in [1..Cardinality(DOMAIN d) -> DOMAIN d] :
        \A i, j \in DOMAIN s : i # j => s[i] # s[j]}

MatchStatus(f, new_name) ==
    IF f = new_name THEN "Already Correct" ELSE "Match Found"

\* _dat_scan_worker: the entries appended to dat_matched_files
RECURSIVE ScanMatches(_, _, _)
ScanMatches(walk, d, dat) ==
    IF walk = <<>> THEN <<>>
    ELSE LET f == Head(walk)
             new_name == dat[d[f]]
             rest == ScanMatches(Tail(walk), d, dat)
         IN IF new_name = Unlisted THEN rest
            ELSE <<[path |-> f, new_name |-> new_name,
                    status |-> MatchStatus(f, new_name)]>> \o rest

\* _dat_scan_worker: the rows inserted in dat_results_tree
ScanRows(walk, d, dat) ==
    [i \in DOMAIN walk |->
        LET f == walk[i]
            new_name == dat[d[f]]
        IN IF new_name = Unlisted
           THEN [current |-> f, new |-> Unlisted, status |-> "No Match"]
           ELSE [current |-> f, new |-> new_name,
                 status |-> MatchStatus(f, new_name)]]

HasMatches(matched) ==
    \E i \in DOMAIN matched : matched[i].status = "Match Found"

\* start_dat_scan, _dat_scan_worker and _dat_scan_complete
DatScan ==
    /\ ren_pc = "idle"
    /\ batches < MaxDatBatches
    /\ \E dat \in Dats(disk), walk \in Walks(disk) :
        /\ dat_matched_files' = ScanMatches(walk, disk, dat)
        /\ dat_results_tree' = ScanRows(walk, disk, dat)
        /\ dat_execute_button' =
              IF HasMatches(ScanMatches(walk, disk, dat))
              THEN "normal" ELSE dat_execute_button
    /\ UNCHANGED <<disk, dat_undo_history, rename_results, final_rename_plan,
                   ren_pc, ren_idx, regexVars, pre_disk, batch_log, last_op,
                   batches, external, notRename>>

\* execute_dat_rename: the matched files to rename, the selected ones if
\* rows are selected
FilesToRename(matched, tree, selected) ==
    LET selected_filenames == {tree[i].current : i \in selected}
        Wanted(m) == /\ m.status = "Match Found"
                     /\ selected # {} => m.path \in selected_filenames
        picked == SelectSeq(matched, Wanted)
    IN [i \in DOMAIN picked |->
            [old |-> picked[i].path, new |-> picked[i].new_name]]

\* _perform_dat_rename: targets that exist on disk are skipped
DatRenamePlan(files_to_rename, d) ==
    LET Free(e) == ~(Exists(d, e.new) /\ e.new # e.old)
    IN SelectSeq(files_to_rename, Free)

\* _perform_dat_rename: the first entry of every target
RECURSIVE FilteredPlan(_, _)
FilteredPlan(plan, seen_targets) ==
    IF plan = <<>> THEN <<>>
    ELSE IF Head(plan).new \in seen_targets
         THEN FilteredPlan(Tail(plan), seen_targets)
         ELSE <<Head(plan)>>
                \o FilteredPlan(Tail(plan), seen_targets \cup {Head(plan).new})

CollisionPaths(files_to_rename, d) ==
    LET plan == DatRenamePlan(files_to_rename, d)
    IN {files_to_rename[i].old : i \in {k \in DOMAIN files_to_rename :
            Exists(d, files_to_rename[k].new)
                /\ files_to_rename[k].new # files_to_rename[k].old}}
       \cup {plan[i].old : i \in {k \in DOMAIN plan :
            \E j \in DOMAIN plan : j # k /\ plan[j].new = plan[k].new}}

DatFinalPlan(files_to_rename, d) ==
    LET Kept(e) == e.old \notin CollisionPaths(files_to_rename, d)
    IN SelectSeq(FilteredPlan(DatRenamePlan(files_to_rename, d), {}), Kept)

DatNoResults ==
    [success |-> 0, skipped |-> 0, errors |-> <<>>, undo_history |-> <<>>]

\* execute_dat_rename and _perform_dat_rename up to the start of the worker
ExecuteDatRename ==
    /\ ren_pc = "idle"
    /\ dat_execute_button = "normal"
    /\ batches < MaxDatBatches
    /\ \E selected \in SUBSET DOMAIN dat_results_tree :
        LET files_to_rename ==
                FilesToRename(dat_matched_files, dat_results_tree, selected)
            final_plan == DatFinalPlan(files_to_rename, disk)
        IN /\ files_to_rename # <<>>
           /\ final_plan # <<>>
           /\ final_rename_plan' = final_plan
           /\ rename_plan' = files_to_rename
    /\ rename_results' = DatNoResults
    /\ ren_pc' = "dat_running"
    /\ ren_idx' = 1
    /\ pre_disk' = disk
    /\ batch_log' = <<>>
    /\ last_op' = "batch"
    /\ batches' = batches + 1
    /\ UNCHANGED <<disk, dat_undo_history, datVars, regexVars, external,
                   notTabs, undoVars, gamelistVars, collision_strategy>>

\* rename_worker, one plan entry: os.rename, which the operating system
\* lets succeed or fail
PerformDatRename ==
    /\ ren_pc = "dat_running"
    /\ ren_idx <= Len(final_rename_plan)
    /\ LET e == final_rename_plan[ren_idx]
       IN \/ /\ Exists(disk, e.old)
             /\ disk' = Move(disk, e.old, e.new)
             /\ rename_results' =
                   [rename_results EXCEPT
                       !.success = @ + 1,
                       !.undo_history = Append(@, <<e.new, e.old>>)]
             /\ batch_log' = Append(batch_log, <<e.new, e.old>>)
          \/ /\ rename_results' =
                   [rename_results EXCEPT !.errors = Append(@, e.old)]
             /\ UNCHANGED <<disk, batch_log>>
    /\ ren_idx' = ren_idx + 1
    /\ UNCHANGED <<dat_undo_history, final_rename_plan, ren_pc, datVars, regexVars,
                   pre_disk, last_op, batches, external, notRename>>

\* rename_worker, after the loop: _show_dat_rename_results is queued
FinishDatRenames ==
    /\ ren_pc = "dat_running"
    /\ ren_idx > Len(final_rename_plan)
    /\ ren_pc' = "dat_finished"
    /\ UNCHANGED <<disk, dat_undo_history, rename_results, final_rename_plan,
                   ren_idx, datVars, regexVars, pre_disk, batch_log, last_op,
                   batches, external, notRename>>

FirstHit(hits) == CHOOSE k \in hits : \A m \in hits : k <= m

\* _update_dat_tree_after_rename
TreeAfterRename(tree, log) ==
    [i \in DOMAIN tree |->
        LET hits == {k \in DOMAIN log : log[k][2] = tree[i].current}
        IN IF hits = {} THEN tree[i]
           ELSE [current |-> log[FirstHit(hits)][1], new |-> tree[i].new,
                 status |-> "Already Correct"]]

\* _update_dat_tree_after_undo
TreeAfterUndo(tree, log) ==
    [i \in DOMAIN tree |->
        LET hits == {k \in DOMAIN log : log[k][1] = tree[i].current}
        IN IF hits = {} THEN tree[i]
           ELSE [current |-> log[FirstHit(hits)][2], new |-> tree[i].new,
                 status |-> "Match Found"]]

\* _show_dat_rename_results, on the main thread
ShowDatRenameResults ==
    /\ ren_pc = "dat_finished"
    /\ dat_undo_history' =
          IF rename_results.undo_history # <<>>
          THEN rename_results.undo_history ELSE dat_undo_history
    /\ \E checked \in BOOLEAN :
        LET log == rename_results.undo_history
            n == rename_results.success
        IN /\ gamelist' = UpdateGamelist(gamelist, checked, log, n)
           /\ gamelist_backup' =
                 BackupGamelist(gamelist, gamelist_backup, checked, log, n)
           /\ gl_before' =
                 IF log # <<>>
                 THEN [gl_before EXCEPT !["dat"] =
                          [content |-> gamelist,
                           rewrote |-> Rewrites(gamelist, checked, log, n)]]
                 ELSE gl_before
    /\ gl_last' = [op |-> "batch", tab |-> "dat"]
    /\ dat_results_tree' =
          TreeAfterRename(dat_results_tree, rename_results.undo_history)
    /\ ren_pc' = "idle"
    /\ UNCHANGED <<disk, rename_results, final_rename_plan, ren_idx,
                   dat_matched_files, dat_execute_button, regexVars, pre_disk,
                   batch_log, last_op, batches, external, notUndo, undoVars>>

\* undo_dat_rename
UndoDatRename ==
    /\ ren_pc = "idle"
    /\ dat_undo_history # <<>>
    /\ disk' = UndoLoop(disk, dat_undo_history)
    /\ undo_errors' = UndoErrors(disk, dat_undo_history, 1)
    /\ undo_success' = Len(dat_undo_history) - Len(undo_errors')
    /\ dat_results_tree' = TreeAfterUndo(dat_results_tree, dat_undo_history)
    /\ dat_undo_history' = <<>>
    /\ gamelist' = RestoreGamelist(gamelist, gamelist_backup)
    /\ gamelist_backup' = <<>>
    /\ gl_last' = [op |-> "undo", tab |-> "dat"]
    /\ last_op' = "undo"
    /\ UNCHANGED <<rename_results, final_rename_plan, ren_pc, ren_idx,
                   dat_matched_files, dat_execute_button, regexVars, pre_disk,
                   batch_log, batches, external, notUndo, gl_before>>

InitDat ==
    /\ OthersIdle
    /\ ScanIdle
    /\ CueIdle
    /\ GamelistIdle
    /\ disk \in Folders
    /\ pre_disk = disk
    /\ files_data = <<>>
    /\ RenameIdle
    /\ DatIdle
    /\ DupIdle
    /\ CacheIdle

NextDat ==
    \/ DatScan
    \/ ExecuteDatRename
    \/ PerformDatRename
    \/ FinishDatRenames
    \/ ShowDatRenameResults
    \/ UndoDatRename

SpecDat == InitDat /\ [][NextDat]_vars

\* C4: when a rename batch has finished, the undo log that Undo replays is
\* exactly the <<new_path, old_path>> pairs of that batch's successful
\* renames, with no pair left over from an earlier batch.
C4_UndoLogIsLastBatch ==
    (ren_pc = "idle" /\ last_op = "batch") => dat_undo_history = batch_log

---------------------------------------------------------------------------
(* Duplicates tab.  File paths are listed in the order os.listdir gives    *)
(* them; every file can be read for hashing.                               *)

AllDupPaths == <<"p1", "p2", "p3", "p4", "p5", "p6">>
DupPaths == {AllDupPaths[i] : i \in 1..MaxDupFiles}
PathIndex(p) == CHOOSE i \in DOMAIN AllDupPaths : AllDupPaths[i] = p

Hashes == {"h1", "h2"}
HashRank(h) == IF h = "h1" THEN 1 ELSE 2
MTimes == {1, 2}

\* os.path.getsize of a file with that digest, in bytes
SizeOf(h) == IF h = "h1" THEN 700 ELSE 2048

\* format_size: one decimal and a unit, as tenths
FormatSize(size_bytes) ==
    IF size_bytes < 1024
    THEN [tenths |-> size_bytes * 10, unit |-> "B"]
    ELSE [tenths |-> (size_bytes * 10 + 512) \div 1024, unit |-> "KB"]

\* parse_size: value * multiplier, in tenths of a byte
ParseSize(size_str) ==
    size_str.tenths * (IF size_str.unit = "B" THEN 1 ELSE 1024)

\* the paths of a folder in listing order
RECURSIVE ListDir(_, _)
ListDir(files, i) ==
    IF i > Len(AllDupPaths) THEN <<>>
    ELSE IF AllDupPaths[i] \in DOMAIN files
         THEN <<AllDupPaths[i]>> \o ListDir(files, i + 1)
         ELSE ListDir(files, i + 1)

\* _scan_files_worker: hash_dict keys in first-insertion order
RECURSIVE HashKeys(_, _, _)
HashKeys(paths, files, seen) ==
    IF paths = <<>> THEN <<>>
    ELSE LET h == files[Head(paths)].hash
         IN IF h \in seen THEN HashKeys(Tail(paths), files, seen)
            ELSE <<h>> \o HashKeys(Tail(paths), files, seen \cup {h})

\* _scan_files_worker: the buckets with two files or more
ScanGroups(files) ==
    LET paths == ListDir(files, 1)
        keys == HashKeys(paths, files, {})
        Bucket(h) == LET Same(q) == files[q].hash = h
                     IN SelectSeq(paths, Same)
        buckets == [i \in DOMAIN keys |->
                        [hash |-> keys[i], paths |-> Bucket(keys[i])]]
        IsDup(b) == Len(b.paths) > 1
    IN SelectSeq(buckets, IsDup)

\* _display_duplicate_groups: groups that still have two files on disk
CleanedGroups(groups, files) ==
    LET OnDisk(q) == q \in DOMAIN files
        existing == [i \in DOMAIN groups |->
                        [hash |-> groups[i].hash,
                         paths |-> SelectSeq(groups[i].paths, OnDisk)]]
        IsDup(b) == Len(b.paths) >= 2
    IN SelectSeq(existing, IsDup)

Wasted(g) == SizeOf(g.hash) * (Len(g.paths) - 1)

\* (wasted, file_hash, file_paths) tuple order
GroupBefore(g1, g2) ==
    \/ Wasted(g1) > Wasted(g2)
    \/ Wasted(g1) = Wasted(g2) /\ HashRank(g1.hash) > HashRank(g2.hash)

\* sorted_groups.sort(reverse=True)
RECURSIVE SortedGroups(_)
SortedGroups(groups) ==
    IF groups = <<>> THEN <<>>
    ELSE LET first == CHOOSE i \in DOMAIN groups :
                        \A j \in DOMAIN groups \ {i} : GroupBefore(groups[i], groups[j])
             rest == [k \in 1..(Len(groups) - 1) |->
                        IF k < first THEN groups[k] ELSE groups[k + 1]]
         IN <<groups[first]>> \o SortedGroups(rest)

\* _display_duplicate_groups: the children of one group, the first one Keep
GroupChildren(g) ==
    [i \in DOMAIN g.paths |->
        [path |-> g.paths[i],
         size |-> FormatSize(SizeOf(g.hash)),
         action |-> IF i = 1 THEN "Keep" ELSE "Delete",
         tags |-> <<IF i = 1 THEN "keep" ELSE "delete", g.hash, g.paths[i]>>]]

DisplayTree(groups) ==
    LET sorted == SortedGroups(groups)
    IN [i \in DOMAIN sorted |->
            [hash |-> sorted[i].hash, children |-> GroupChildren(sorted[i])]]

\* the files with every file taken as hashed
HashedAll(files, failing) == files

\* _scan_files_worker: the files _hash_file returns a digest for; one it
\* returns None for is skipped
Hashed(files, failing) ==
    [q \in DOMAIN files \ failing |-> files[q]]

\* start_duplicate_scan, _scan_files_worker and _display_duplicate_groups
ScanDuplicates ==
    /\ del_pc = "idle"
    /\ LET cleaned == CleanedGroups(ScanGroups(Hashed(dup_files, unreadable)),
                                    dup_files)
       IN /\ duplicate_groups' = cleaned
          /\ dup_tree' = DisplayTree(cleaned)
          /\ group_selection' = [i \in DOMAIN cleaned |-> TRUE]
    /\ UNCHANGED <<dup_files, del_pc, files_to_delete, del_idx, del_marked,
                   del_unchecked, removed, notDup>>

ActionTags == {"keep", "delete"}

\* [t for t in tags if t not in ["keep", "delete"]] + [tag]
Retag(tags, tag) ==
    LET Other(t) == t \notin ActionTags
    IN Append(SelectSeq(tags, Other), tag)

Marked(child, action, tag) ==
    [child EXCEPT !.action = action, !.tags = Retag(@, tag)]

HasTag(tags, tag) == \E k \in DOMAIN tags : tags[k] = tag

\* _on_dup_tree_click on a child row
ClickedChildren(children, item) ==
    IF children[item].action = "Keep"
    THEN LET deletes == {j \in DOMAIN children :
                            j # item /\ children[j].action = "Delete"}
         IN [j \in DOMAIN children |->
                IF j = item THEN Marked(children[j], "Delete", "delete")
                ELSE IF deletes # {} /\ j = FirstHit(deletes)
                     THEN Marked(children[j], "Keep", "keep")
                     ELSE children[j]]
    ELSE [j \in DOMAIN children |->
            IF j = item THEN Marked(children[j], "Keep", "keep")
            ELSE IF HasTag(children[j].tags, "keep")
                 THEN Marked(children[j], "Delete", "delete")
                 ELSE children[j]]

\* the main window takes clicks: no progress dialog holds the grab
Interactive == del_pc \in {"idle", "display"}

ClickChild ==
    /\ Interactive
    /\ \E g \in DOMAIN dup_tree : \E item \in DOMAIN dup_tree[g].children :
        dup_tree' = [dup_tree EXCEPT
                        ![g].children = ClickedChildren(@, item)]
    /\ UNCHANGED <<dup_files, duplicate_groups, group_selection, del_pc,
                   files_to_delete, del_idx, del_marked, del_unchecked,
                   removed, notDup>>

\* _on_dup_tree_click on the check box of a group header
ClickGroupCheckbox ==
    /\ Interactive
    /\ \E g \in DOMAIN dup_tree :
        group_selection' = [group_selection EXCEPT ![g] = ~@]
    /\ UNCHANGED <<dup_files, duplicate_groups, dup_tree, del_pc,
                   files_to_delete, del_idx, del_marked, del_unchecked,
                   removed, notDup>>

\* select_all_groups / deselect_all_groups
SelectAllGroups ==
    /\ Interactive
    /\ dup_tree # <<>>
    /\ \E checked \in BOOLEAN :
        group_selection' = [g \in DOMAIN dup_tree |-> checked]
    /\ UNCHANGED <<dup_files, duplicate_groups, dup_tree, del_pc,
                   files_to_delete, del_idx, del_marked, del_unchecked,
                   removed, notDup>>

AutoStrategies == {"pattern", "largest", "smallest", "oldest", "newest"}

\* info['filename'].lower() of the scanned files: the bracketed tags that
\* follow the title, "Sonic (Beta) (Proto).md", "Sonic (Beta).md",
\* "Sonic (USA).md", "Sonic (Europe).md", "Sonic (Europe) (Rev 1).md",
\* "Sonic (J) [!].md"
FilenameLower(path) ==
    IF path = "p1" THEN <<"(beta)", "(proto)">>
    ELSE IF path = "p2" THEN <<"(beta)">>
    ELSE IF path = "p3" THEN <<"(usa)">>
    ELSE IF path = "p4" THEN <<"(europe)">>
    ELSE IF path = "p5" THEN <<"(europe)", "(rev 1)">>
    ELSE <<"(j)", "[!]">>

\* apply_auto_selection: region_priority
region_priority ==
    [region \in {"usa", "(usa)", "(u)", "(world)", "europe", "(europe)",
                 "(e)", "japan", "(japan)", "(j)"} |->
        IF region \in {"usa", "(usa)"} THEN 100
        ELSE IF region = "(u)" THEN 90
        ELSE IF region = "(world)" THEN 80
        ELSE IF region \in {"europe", "(europe)"} THEN 70
        ELSE IF region = "(e)" THEN 60
        ELSE IF region \in {"japan", "(japan)"} THEN 50
        ELSE 40]

\* `needle in filename_lower`: the needles that are substrings of a tag
SubstringsOf(tag) ==
    IF tag = "(usa)" THEN {"usa", "(usa)"}
    ELSE IF tag = "(europe)" THEN {"europe", "(europe)"}
    ELSE IF tag = "(j)" THEN {"(j)"}
    ELSE IF tag = "(rev 1)" THEN {"rev 1"}
    ELSE {}

In(needle, filename_lower) ==
    \E k \in DOMAIN filename_lower : needle \in SubstringsOf(filename_lower[k])

Max(S) == CHOOSE x \in S : \A y \in S : x >= y

\* apply_auto_selection: the score of one file name
Score(filename_lower) ==
    LET region_score ==
            Max({0} \cup {region_priority[r] :
                    r \in {q \in DOMAIN region_priority : In(q, filename_lower)}})
        rev_bonus == IF In("rev 1", filename_lower) \/ In("rev1", filename_lower)
                     THEN 10 ELSE 0
        bracket_count == Len(filename_lower)
    IN region_score + rev_bonus - bracket_count

\* apply_auto_selection, strategy "pattern": keep_file after the loop that
\* starts with best_score = -1 and takes a file when score > best_score;
\* file_info[0] when the loop took none
PatternKeep(children, info) ==
    LET score(i) == Score(FilenameLower(children[i].path))
        taken == {i \in info : score(i) > -1}
    IN IF taken = {}
       THEN CHOOSE i \in info : \A j \in info : i <= j
       ELSE CHOOSE i \in taken : \A j \in taken :
                score(i) > score(j) \/ (score(i) = score(j) /\ i <= j)

\* apply_auto_selection: the children whose last tag is an existing path
FileInfo(children, files) ==
    {i \in DOMAIN children :
        children[i].tags[Len(children[i].tags)] \in DOMAIN files}

\* apply_auto_selection: max / min return the first best member, the
\* stable sort by mtime keeps equal members in order
KeepFile(children, info, files, strategy) ==
    LET size(i) == ParseSize(children[i].size)
        mtime(i) == files[children[i].path].mtime
    IN IF strategy = "pattern"
       THEN PatternKeep(children, info)
       ELSE IF strategy = "largest"
       THEN CHOOSE i \in info : \A j \in info :
                size(i) > size(j) \/ (size(i) = size(j) /\ i <= j)
       ELSE IF strategy = "smallest"
       THEN CHOOSE i \in info : \A j \in info :
                size(i) < size(j) \/ (size(i) = size(j) /\ i <= j)
       ELSE IF strategy = "oldest"
       THEN CHOOSE i \in info : \A j \in info :
                mtime(i) < mtime(j) \/ (mtime(i) = mtime(j) /\ i <= j)
       ELSE CHOOSE i \in info : \A j \in info :
                mtime(i) > mtime(j) \/ (mtime(i) = mtime(j) /\ i >= j)

AutoSelected(children, files, strategy) ==
    LET info == FileInfo(children, files)
    IN IF info = {} THEN children
       ELSE [i \in DOMAIN children |->
                IF i \notin info THEN children[i]
                ELSE IF i = KeepFile(children, info, files, strategy)
                     THEN Marked(children[i], "Keep", "keep")
                     ELSE Marked(children[i], "Delete", "delete")]

ApplyAutoSelection ==
    /\ Interactive
    /\ duplicate_groups # <<>>
    /\ \E strategy \in AutoStrategies :
        dup_tree' = [g \in DOMAIN dup_tree |->
                        [dup_tree[g] EXCEPT
                            !.children = AutoSelected(@, dup_files, strategy)]]
    /\ UNCHANGED <<dup_files, duplicate_groups, group_selection, del_pc,
                   files_to_delete, del_idx, del_marked, del_unchecked,
                   removed, notDup>>

\* every child of one group whose file exists, whatever its mark
ChildrenToDeleteAnyMark(children, files) ==
    LET paths == [i \in DOMAIN children |-> children[i].path]
        Kept(q) == q \in DOMAIN files
    IN SelectSeq(paths, Kept)

\* delete_duplicates: the Delete-marked children of one group whose file exists
RECURSIVE ChildrenToDelete(_, _)
ChildrenToDelete(children, files) ==
    IF children = <<>> THEN <<>>
    ELSE LET child == Head(children)
             rest == ChildrenToDelete(Tail(children), files)
         IN IF child.action = "Delete" /\ child.path \in DOMAIN files
            THEN <<child.path>> \o rest
            ELSE rest

\* delete_duplicates without the group_selection test
RECURSIVE FilesToDeleteAnyGroup(_, _, _, _)
FilesToDeleteAnyGroup(tree, selection, files, g) ==
    IF g > Len(tree) THEN <<>>
    ELSE ChildrenToDelete(tree[g].children, files)
            \o FilesToDeleteAnyGroup(tree, selection, files, g + 1)

\* delete_duplicates: groups that are not checked are skipped
RECURSIVE FilesToDelete(_, _, _, _)
FilesToDelete(tree, selection, files, g) ==
    IF g > Len(tree) THEN <<>>
    ELSE IF ~selection[g] THEN FilesToDelete(tree, selection, files, g + 1)
    ELSE ChildrenToDelete(tree[g].children, files)
            \o FilesToDelete(tree, selection, files, g + 1)

\* delete_duplicates up to the start of delete_worker
DeleteDuplicates ==
    /\ del_pc = "idle"
    /\ duplicate_groups # <<>>
    /\ LET to_delete == FilesToDelete(dup_tree, group_selection, dup_files, 1)
       IN /\ to_delete # <<>>
          /\ files_to_delete' = to_delete
    /\ del_pc' = "running"
    /\ del_idx' = 1
    /\ del_marked' =
          {q \in DupPaths : \E g \in DOMAIN dup_tree :
              \E i \in DOMAIN dup_tree[g].children :
                  /\ group_selection[g]
                  /\ dup_tree[g].children[i].path = q
                  /\ dup_tree[g].children[i].action = "Delete"}
    /\ del_unchecked' =
          {q \in DupPaths : \E g \in DOMAIN dup_tree :
              \E i \in DOMAIN dup_tree[g].children :
                  ~group_selection[g] /\ dup_tree[g].children[i].path = q}
    /\ removed' = {}
    /\ UNCHANGED <<dup_files, duplicate_groups, dup_tree, group_selection,
                   notDup>>

\* delete_worker, one file: os.remove if the file exists, which the
\* operating system lets succeed or fail
DeleteStep ==
    /\ del_pc = "running"
    /\ del_idx <= Len(files_to_delete)
    /\ LET file_path == files_to_delete[del_idx]
       IN \/ /\ file_path \in DOMAIN dup_files
             /\ dup_files' = [q \in DOMAIN dup_files \ {file_path} |-> dup_files[q]]
          \/ UNCHANGED dup_files
    /\ removed' = removed \cup (DOMAIN dup_files \ DOMAIN dup_files')
    /\ del_idx' = del_idx + 1
    /\ UNCHANGED <<duplicate_groups, dup_tree, group_selection, del_pc,
                   files_to_delete, del_marked, del_unchecked, notDup>>

\* delete_worker, after the loop: the result dialog, then the redisplay is
\* scheduled
DeleteDone ==
    /\ del_pc = "running"
    /\ del_idx > Len(files_to_delete)
    /\ del_pc' = "display"
    /\ UNCHANGED <<dup_files, duplicate_groups, dup_tree, group_selection,
                   files_to_delete, del_idx, del_marked, del_unchecked,
                   removed, notDup>>

\* _display_duplicate_groups, scheduled by delete_worker
Redisplay ==
    /\ del_pc = "display"
    /\ LET cleaned == CleanedGroups(duplicate_groups, dup_files)
       IN /\ duplicate_groups' = cleaned
          /\ dup_tree' = DisplayTree(cleaned)
          /\ group_selection' = [i \in DOMAIN cleaned |-> TRUE]
    /\ del_pc' = "idle"
    /\ UNCHANGED <<dup_files, files_to_delete, del_idx, del_marked,
                   del_unchecked, removed, notDup>>

\* the rename tabs with no folder loaded
RenameTabsIdle ==
    /\ RetryIdle
    /\ PlanIdle
    /\ disk = <<>>
    /\ pre_disk = <<>>
    /\ files_data = <<>>
    /\ rename_button = "disabled"
    /\ preview_existing = {}
    /\ undo_history = <<>>
    /\ rename_results = NoResults
    /\ final_rename_plan = <<>>
    /\ ren_pc = "idle"
    /\ ren_idx = 1
    /\ worker_undo = <<>>
    /\ batch_log = <<>>
    /\ last_op = "none"
    /\ batches = 0
    /\ external = <<>>
    /\ DatIdle

InitDup ==
    /\ OthersIdle
    /\ ScanIdle
    /\ CueIdle
    /\ GamelistIdle
    /\ dup_files \in [DupPaths -> [hash : Hashes, mtime : MTimes]]
    /\ duplicate_groups = <<>>
    /\ dup_tree = <<>>
    /\ group_selection = <<>>
    /\ del_pc = "idle"
    /\ files_to_delete = <<>>
    /\ del_idx = 1
    /\ del_marked = {}
    /\ del_unchecked = {}
    /\ removed = {}
    /\ RenameTabsIdle
    /\ CacheIdle

NextDup ==
    \/ ScanDuplicates
    \/ ClickChild
    \/ ClickGroupCheckbox
    \/ SelectAllGroups
    \/ ApplyAutoSelection
    \/ DeleteDuplicates
    \/ DeleteStep
    \/ DeleteDone
    \/ Redisplay

SpecDup == InitDup /\ [][NextDup]_vars

Keeps(g) ==
    {i \in DOMAIN dup_tree[g].children : dup_tree[g].children[i].action = "Keep"}

\* C5: every displayed group has exactly one member marked Keep, after any
\* sequence of keep/delete toggles and auto-selection runs.
C5_ExactlyOneKeep ==
    \A g \in DOMAIN dup_tree : Cardinality(Keeps(g)) = 1

\* C6: a delete operation removes only files that were marked Delete in a
\* group checked when Delete was invoked, and no file of a group that was
\* unchecked then.
C6_DeleteOnlyCheckedMarked ==
    /\ removed \subseteq del_marked
    /\ removed \cap del_unchecked = {}

\* a delete operation has removed files while a group was unchecked
C6_Witness ==
    /\ del_pc = "display"
    /\ removed # {}
    /\ del_unchecked # {}

---------------------------------------------------------------------------
(* The hash cache.  Every file can be stat-ed and read.                    *)

CacheOrder == <<"f1", "f2">>
CachePaths == {CacheOrder[i] : i \in DOMAIN CacheOrder}
CacheContents == {"c1", "c2", "c3"}
CacheMTimes == {1, 2}
Methods == {"sha1", "md5"}

\* stat.st_size of a file with that content
ContentSize(content) == IF content = "c3" THEN 2 ELSE 1

\* hasher.hexdigest(): one digest per content and algorithm
Digest(content, method) == [of |-> content, by |-> method]

\* a cache key without the modification time
CacheKeyNoMtime(file_path, file_size, file_mtime, method) ==
    <<file_path, file_size, method>>

\* f"{file_path}|{file_size}|{file_mtime}|{method}": the fields can be read
\* back from the right, so the key is the tuple of its fields
CacheKey(file_path, file_size, file_mtime, method) ==
    <<file_path, file_size, file_mtime, method>>

KeyOf(fs, file_path, method) ==
    CacheKey(file_path, ContentSize(fs[file_path].content),
             fs[file_path].mtime, method)

\* _hash_file / _hash_file_quick: the cache after the lookup
HashFile(cache, fs, file_path, method) ==
    LET cache_key == KeyOf(fs, file_path, method)
    IN IF cache_key \in DOMAIN cache THEN cache
       ELSE [k \in DOMAIN cache \cup {cache_key} |->
                IF k = cache_key THEN Digest(fs[file_path].content, method)
                ELSE cache[k]]

\* _hash_file / _hash_file_quick: the digest returned
HashResult(cache, fs, file_path, method) ==
    HashFile(cache, fs, file_path, method)[KeyOf(fs, file_path, method)]

\* the hashing loop of a scan or compare over the files it found
RECURSIVE HashAll(_, _, _, _, _)
HashAll(cache, fs, scanned, method, i) ==
    IF i > Len(CacheOrder) THEN cache
    ELSE IF CacheOrder[i] \notin scanned
         THEN HashAll(cache, fs, scanned, method, i + 1)
         ELSE HashAll(HashFile(cache, fs, CacheOrder[i], method), fs, scanned,
                      method, i + 1)

StatOf(fs, file_path, method) ==
    [path |-> file_path, size |-> ContentSize(fs[file_path].content),
     mtime |-> fs[file_path].mtime, method |-> method]

\* history of one lookup: was the digest cached under this size and mtime,
\* was it cached at all, and what the lookup did
LookupOf(cache, fs, file_path, method) ==
    [fresh |-> StatOf(fs, file_path, method) \notin cached_at,
     changed |-> \E c \in cached_at :
                    c.path = file_path /\ c.method = method,
     hit |-> KeyOf(fs, file_path, method) \in DOMAIN cache,
     result |-> HashResult(cache, fs, file_path, method),
     content |-> fs[file_path].content,
     method |-> method]

LookupsAfter(cache, scanned, method) ==
    [q \in DOMAIN lookups \cup scanned |->
        IF q \in scanned THEN LookupOf(cache, cache_fs, q, method)
        ELSE lookups[q]]

CachedAtAfter(cache, scanned, method) ==
    cached_at \cup
        {StatOf(cache_fs, q, method) : q \in
            {r \in scanned : KeyOf(cache_fs, r, method) \notin DOMAIN cache}}

\* save_hash_cache: the file is rewritten with the dict passed, or the
\* write fails and the file stays
SaveHashCache(cache) ==
    /\ \/ hash_cache_file' = cache
       \/ UNCHANGED hash_cache_file
    /\ persisted_ever' = persisted_ever \cup DOMAIN hash_cache_file'

\* _scan_files_worker: hash the files of the folder, then save the cache
DuplicateScan ==
    /\ cache_steps < MaxCacheSteps
    /\ \E scanned \in SUBSET CachePaths \ {{}}, method \in Methods :
        /\ dup_hash_cache' = HashAll(dup_hash_cache, cache_fs, scanned, method, 1)
        /\ lookups' = LookupsAfter(dup_hash_cache, scanned, method)
        /\ cached_at' = CachedAtAfter(dup_hash_cache, scanned, method)
    /\ SaveHashCache(dup_hash_cache')
    /\ cache_steps' = cache_steps + 1
    /\ UNCHANGED <<cache_fs, cmp_hash_cache, writes, notCache>>

\* _hash_file_quick over the files a compare worker hashes
CompareHashes(scanned) ==
    /\ cmp_hash_cache' = HashAll(cmp_hash_cache, cache_fs, scanned, "sha1", 1)
    /\ lookups' = LookupsAfter(cmp_hash_cache, scanned, "sha1")
    /\ cached_at' = CachedAtAfter(cmp_hash_cache, scanned, "sha1")

\* _quick_compare_worker / _deep_compare_worker: hash the files to compare
\* (none in quick mode without common names), then save the cache
Compare ==
    /\ cache_steps < MaxCacheSteps
    /\ \E scanned \in SUBSET CachePaths : CompareHashes(scanned)
    /\ SaveHashCache(cmp_hash_cache')
    /\ cache_steps' = cache_steps + 1
    /\ UNCHANGED <<cache_fs, dup_hash_cache, writes, notCache>>

\* load_hash_cache: the persisted dict, or {} when the file cannot be read
LoadHashCache == {hash_cache_file, <<>>}

\* the program is closed and started again: both tabs load the cache
Restart ==
    /\ cache_steps < MaxCacheSteps
    /\ dup_hash_cache' \in LoadHashCache
    /\ cmp_hash_cache' \in LoadHashCache
    /\ cache_steps' = cache_steps + 1
    /\ UNCHANGED <<cache_fs, hash_cache_file, cached_at, lookups,
                   persisted_ever, writes, notCache>>

\* another program rewrites a file
WriteFile ==
    /\ writes < MaxWrites
    /\ \E q \in CachePaths, content \in CacheContents, mtime \in CacheMTimes :
        /\ [content |-> content, mtime |-> mtime] # cache_fs[q]
        /\ cache_fs' = [cache_fs EXCEPT ![q] = [content |-> content, mtime |-> mtime]]
    /\ writes' = writes + 1
    /\ UNCHANGED <<hash_cache_file, dup_hash_cache, cmp_hash_cache, cached_at,
                   lookups, persisted_ever, cache_steps, notCache>>

InitCache ==
    /\ OthersIdle
    /\ ScanIdle
    /\ CueIdle
    /\ GamelistIdle
    /\ cache_fs = [q \in CachePaths |-> [content |-> "c1", mtime |-> 1]]
    /\ hash_cache_file = <<>>
    /\ dup_hash_cache = <<>>
    /\ cmp_hash_cache = <<>>
    /\ cached_at = {}
    /\ lookups = <<>>
    /\ persisted_ever = {}
    /\ cache_steps = 0
    /\ writes = 0
    /\ RenameTabsIdle
    /\ DupIdle

NextCache ==
    \/ DuplicateScan
    \/ Compare
    \/ Restart
    \/ WriteFile

SpecCache == InitCache /\ [][NextCache]_vars

\* C7: when a file's size or modification time differs from those under
\* which its digest was cached, the next hash lookup for that path is a
\* cache miss and returns the digest of the file's current contents.
C7_ChangedFileIsRehashed ==
    \A q \in DOMAIN lookups :
        lookups[q].fresh =>
            /\ ~lookups[q].hit
            /\ lookups[q].result = Digest(lookups[q].content, lookups[q].method)

\* a file whose digest was cached has changed and was looked up again
C7_Witness ==
    \E q \in DOMAIN lookups :
        lookups[q].fresh /\ lookups[q].changed /\ ~lookups[q].hit

\* C8: an entry that was stored and saved is still in the persisted cache
\* file after every later scan, comparison, save and restart.
C8_NoEntryRemoved ==
    persisted_ever \subseteq DOMAIN hash_cache_file

---------------------------------------------------------------------------
(* The Hashing Engine, calculate_file_hashes, next to the tabs' cached     *)
(* hashing.  The file f2 is a .zip archive (file_path.lower().endswith     *)
(* ('.zip') and zipfile.is_zipfile); f1 is not.                            *)

ZipPaths == {"f2"}

\* the extensions of ROM_EXTENSIONS_WHITELIST that the archives and the
\* collections hold
ROM_EXTENSIONS_WHITELIST == {".nes", ".gba", ".md", ".zip"}

\* zipf.namelist() of the archive with these bytes, with what each member
\* decompresses to
NameList(content) ==
    IF content = "c1"
    THEN <<[ext |-> ".txt", data |-> "t1"], [ext |-> ".nes", data |-> "r1"]>>
    ELSE IF content = "c2"
    THEN <<[ext |-> ".nes", data |-> "r2"], [ext |-> ".gba", data |-> "r3"]>>
    ELSE <<[ext |-> "/", data |-> ""], [ext |-> ".txt", data |-> "t1"]>>

\* the first member that is not a directory, whatever its extension
RomFileAny(file_list) ==
    LET files == {i \in DOMAIN file_list : file_list[i].ext # "/"}
    IN IF files = {} THEN 0 ELSE CHOOSE i \in files : \A j \in files : i <= j

\* calculate_file_hashes: the first member with a whitelisted extension
RomFile(file_list) ==
    LET roms == {i \in DOMAIN file_list :
                    /\ file_list[i].ext # "/"
                    /\ file_list[i].ext \in ROM_EXTENSIONS_WHITELIST}
    IN IF roms = {} THEN 0 ELSE CHOOSE i \in roms : \A j \in roms : i <= j

\* calculate_file_hashes: the bytes that are hashed, "" when the call raises
\* "No ROM file found in zip"
HashedBytes(file_path, content) ==
    IF file_path \in ZipPaths
    THEN LET file_list == NameList(content)
         IN IF RomFile(file_list) = 0 THEN ""
            ELSE file_list[RomFile(file_list)].data
    ELSE content

\* calculate_file_hashes: (crc32_hex, md5_hex, sha1_hex)
calculate_file_hashes(file_path, content) ==
    [m \in {"crc32", "md5", "sha1"} |->
        Digest(HashedBytes(file_path, content), m)]

\* C17: the digest a lookup through the hash cache returns, on a miss and
\* on a hit, is the digest calculate_file_hashes computes for the file
\* with that algorithm; for a ZIP archive that is the digest of its first
\* whitelisted ROM member's decompressed content.
C17_CachedDigestIsEngineDigest ==
    \A q \in DOMAIN lookups :
        HashedBytes(q, lookups[q].content) # "" =>
            lookups[q].result =
                calculate_file_hashes(q, lookups[q].content)[lookups[q].method]

---------------------------------------------------------------------------
(* Worker threads and the main loop: the Compare tab and the DAT tab's     *)
(* scan.  A handler runs on the main thread; a worker is a thread started  *)
(* by a handler; root.after queues a callback that the main loop runs.     *)

\* the state of the rename tabs that scans and compares leave alone
notDatTab == <<disk, files_data, rename_button, preview_existing,
               undo_history, rename_results, final_rename_plan, ren_pc,
               ren_idx, worker_undo, pre_disk, batch_log, last_op, batches,
               external, retryVars, undoVars, cueVars, dat_undo_history,
               gamelistVars, planVars, otherVars>>

\* the DAT tab's scan controls
datScanVars == <<dat_scan_running, dat_scan_cancelled, dat_start_scan_button,
                 dat_stop_scan_button, dat_hash_map>>

\* the history of the scans' cancellation
scanHist == <<scan_flagged, terminals>>

\* the hash cache state that a worker without hashing leaves alone
hashVars == <<cache_fs, cmp_hash_cache, dup_hash_cache, cached_at, lookups,
              cache_steps, writes>>

\* the folder the DAT tab scans
ScanFolder ==
    [n \in {[stem |-> "a", sfx |-> <<>>], [stem |-> "b", sfx |-> <<>>]} |->
        ContentOf(n)]

\* a queued callback that carries no tree row
NoRow == [current |-> Unlisted, new |-> Unlisted, status |-> ""]

Callback(fn) == [fn |-> fn, row |-> NoRow]

\* a write of a Tk variable, widget or dialog, and the thread that made it
Wrote(thread, widgets) == {[thread |-> thread, widget |-> w] : w \in widgets}

Running(kind) == {t \in 1..MaxThreads : threads[t].kind = kind}

\* threading.Thread(...).start(): the model's first unused thread slot
FreeSlots == {t \in 1..MaxThreads : threads[t].kind = "none"}
NewSlot == CHOOSE t \in FreeSlots : \A u \in FreeSlots : t <= u

CompareMethods == {"quick", "deep"}

\* start_compare, from Start Compare or from Refresh: clears the trees and
\* starts a worker for the chosen method
StartCompare ==
    /\ scan_starts < MaxStarts
    /\ FreeSlots # {}
    /\ \E method \in CompareMethods :
        threads' = [threads EXCEPT ![NewSlot] =
            [kind |-> "compare",
             pc |-> IF method = "quick" THEN "scanning" ELSE "hashing_a",
             walk |-> <<>>, idx |-> 0]]
    /\ ui_writes' = ui_writes \cup
            Wrote("main", {"compare_tree_a", "compare_tree_b"})
    /\ scan_starts' = scan_starts + 1
    /\ UNCHANGED <<scanHist, after_queue, datScanVars, datVars, notDatTab, dupVars,
                   cacheVars>>

\* the compare workers up to their hashing: each phase sets
\* compare_status_var and compare_progress_var from the worker
CompareWorkerProgress(t) ==
    /\ threads[t].kind = "compare"
    /\ threads[t].pc \in {"scanning", "analyzing", "hashing_a"}
    /\ \E next \in {"analyzing", "verifying", "results", "hashing_b"} :
        /\ threads[t].pc = "scanning" => next = "analyzing"
        /\ threads[t].pc = "analyzing" => next \in {"verifying", "results"}
        /\ threads[t].pc = "hashing_a" => next = "hashing_b"
        /\ threads' = [threads EXCEPT ![t].pc = next]
    /\ ui_writes' = ui_writes \cup
            Wrote("worker", {"compare_status_var", "compare_progress_var"})
    /\ UNCHANGED <<scanHist, after_queue, scan_starts, datScanVars, datVars, notDatTab,
                   dupVars, cacheVars>>

\* the hashing of a compare worker: the common names when verifying, the
\* second collection in deep mode
CompareWorkerHash(t) ==
    /\ threads[t].kind = "compare"
    /\ threads[t].pc \in {"verifying", "hashing_b"}
    /\ \E scanned \in SUBSET CachePaths \ {{}} : CompareHashes(scanned)
    /\ threads' = [threads EXCEPT ![t].pc = "results"]
    /\ ui_writes' = ui_writes \cup Wrote("worker", {"compare_status_var"})
    /\ UNCHANGED <<scanHist, after_queue, scan_starts, datScanVars, datVars, notDatTab,
                   dupVars, cache_fs, hash_cache_file, dup_hash_cache,
                   persisted_ever, cache_steps, writes>>

\* the end of a compare worker: the display is queued, the cache is saved
CompareWorkerFinish(t) ==
    /\ threads[t].kind = "compare"
    /\ threads[t].pc = "results"
    /\ after_queue' = Append(after_queue, Callback("_display_compare_results"))
    /\ SaveHashCache(cmp_hash_cache)
    /\ threads' = [threads EXCEPT ![t] = NoThread]
    /\ UNCHANGED <<scanHist, ui_writes, scan_starts, datScanVars, datVars, notDatTab,
                   dupVars, hashVars>>

\* a compare worker whose file access raises: the error dialog is queued,
\* the status is set from the worker, the cache is saved
CompareWorkerError(t) ==
    /\ threads[t].kind = "compare"
    /\ after_queue' = Append(after_queue, Callback("show_error"))
    /\ ui_writes' = ui_writes \cup Wrote("worker", {"compare_status_var"})
    /\ SaveHashCache(cmp_hash_cache)
    /\ threads' = [threads EXCEPT ![t] = NoThread]
    /\ UNCHANGED <<scanHist, scan_starts, datScanVars, datVars, notDatTab, dupVars,
                   hashVars>>

ScanButtons == {"Start Scan & Match", "Refresh"}

\* start_dat_scan, from Start Scan & Match or through dat_refresh_scan
StartDatScan ==
    /\ scan_starts < MaxStarts
    /\ FreeSlots # {}
    /\ disk # <<>>
    /\ dat_hash_map # <<>>
    /\ \E button \in ScanButtons :
        button = "Start Scan & Match" => dat_start_scan_button = "normal"
    /\ dat_results_tree' = <<>>
    /\ dat_matched_files' = <<>>
    /\ dat_scan_running' = TRUE
    /\ dat_scan_cancelled' = FALSE
    /\ dat_start_scan_button' = "disabled"
    /\ dat_stop_scan_button' = "normal"
    /\ threads' = [threads EXCEPT ![NewSlot] =
            [kind |-> "dat_scan", pc |-> "walk", walk |-> <<>>, idx |-> 1]]
    /\ ui_writes' = ui_writes \cup
            Wrote("main", {"dat_results_tree", "dat_summary_var",
                           "dat_start_scan_button", "dat_stop_scan_button",
                           "dat_progress_var", "dat_scan_status_var"})
    /\ scan_starts' = scan_starts + 1
    /\ scan_flagged' = [scan_flagged EXCEPT ![NewSlot] = FALSE]
    /\ terminals' = [terminals EXCEPT ![NewSlot] = <<>>]
    /\ UNCHANGED <<after_queue, dat_hash_map, dat_execute_button, notDatTab,
                   dupVars, cacheVars>>

\* the worker of slot t has files left to process
FilesRemain(t) ==
    /\ threads[t].kind = "dat_scan"
    /\ threads[t].pc = "walk" \/ threads[t].idx <= Len(threads[t].walk)

\* stop_dat_scan
StopDatScan ==
    /\ dat_stop_scan_button = "normal"
    /\ dat_scan_cancelled' = TRUE
    /\ dat_stop_scan_button' = "disabled"
    /\ ui_writes' = ui_writes \cup
            Wrote("main", {"dat_scan_status_var", "dat_stop_scan_button"})
    /\ scan_flagged' = [t \in 1..MaxThreads |->
            scan_flagged[t] \/ FilesRemain(t)]
    /\ UNCHANGED <<terminals, threads, after_queue, scan_starts, dat_scan_running,
                   dat_start_scan_button, dat_hash_map, datVars, notDatTab,
                   dupVars, cacheVars>>

\* _dat_scan_worker: the cancellation check before the walk and before
\* every file
DatWorkerCancelled(t) ==
    /\ threads[t].kind = "dat_scan"
    /\ dat_scan_cancelled
    /\ after_queue' = Append(after_queue, Callback("_dat_scan_cancelled"))
    /\ terminals' = [terminals EXCEPT ![t] = Append(@, "cancelled")]
    /\ threads' = [threads EXCEPT ![t] = NoThread]
    /\ UNCHANGED <<scan_flagged, ui_writes, scan_starts, datScanVars, datVars, notDatTab,
                   dupVars, cacheVars>>

\* _dat_scan_worker: os.walk of the folder
DatWorkerWalk(t) ==
    /\ threads[t].kind = "dat_scan"
    /\ threads[t].pc = "walk"
    /\ ~dat_scan_cancelled
    /\ \E walk \in Walks(disk) :
        threads' = [threads EXCEPT ![t] =
            [kind |-> "dat_scan", pc |-> "files", walk |-> walk, idx |-> 1]]
    /\ after_queue' = Append(after_queue, Callback("progress_maximum"))
    /\ UNCHANGED <<scanHist, ui_writes, scan_starts, datScanVars, datVars, notDatTab,
                   dupVars, cacheVars>>

\* _dat_scan_worker: one file is hashed and matched; the worker appends
\* the match to dat_matched_files and queues the status and the tree row
DatWorkerFile(t) ==
    /\ threads[t].kind = "dat_scan"
    /\ threads[t].pc = "files"
    /\ threads[t].idx <= Len(threads[t].walk)
    /\ ~dat_scan_cancelled
    /\ LET f == threads[t].walk[threads[t].idx]
       IN /\ dat_matched_files' =
                dat_matched_files \o ScanMatches(<<f>>, disk, dat_hash_map)
          /\ after_queue' = after_queue \o
                <<Callback("scan_status"),
                  [fn |-> "insert",
                   row |-> ScanRows(<<f>>, disk, dat_hash_map)[1]]>>
    /\ threads' = [threads EXCEPT ![t].idx = @ + 1]
    /\ UNCHANGED <<scanHist, ui_writes, scan_starts, datScanVars, dat_results_tree,
                   dat_execute_button, notDatTab, dupVars, cacheVars>>

\* files of the walk the DAT file does not list
Unmatched(walk) ==
    {i \in DOMAIN walk : dat_hash_map[disk[walk[i]]] = Unlisted}

\* _dat_scan_worker after the last file: the summary, the unmatched dialog
\* and _dat_scan_complete are queued
DatWorkerFinish(t) ==
    /\ threads[t].kind = "dat_scan"
    /\ threads[t].pc = "files"
    /\ threads[t].idx > Len(threads[t].walk)
    /\ after_queue' = after_queue \o
            <<Callback("dat_summary")>> \o
            (IF Unmatched(threads[t].walk) # {}
             THEN <<Callback("_show_unmatched_dialog")>> ELSE <<>>) \o
            <<Callback("_dat_scan_complete")>>
    /\ terminals' = [terminals EXCEPT ![t] = Append(@, "completed")]
    /\ threads' = [threads EXCEPT ![t] = NoThread]
    /\ UNCHANGED <<scan_flagged, ui_writes, scan_starts, datScanVars, datVars, notDatTab,
                   dupVars, cacheVars>>

\* the widgets a queued callback writes
WidgetsOf(fn) ==
    CASE fn = "progress_maximum" -> {"dat_progress_bar"}
      [] fn = "scan_status" -> {"dat_scan_status_var", "dat_progress_var"}
      [] fn = "insert" -> {"dat_results_tree"}
      [] fn = "dat_summary" -> {"dat_summary_var"}
      [] fn = "_show_unmatched_dialog" -> {"dialog"}
      [] fn = "show_error" -> {"dialog"}
      [] fn = "_display_compare_results" ->
            {"compare_tree_a", "compare_tree_b", "compare_summary_var",
             "compare_status_var", "compare_progress_var"}
      [] OTHER -> {"dat_start_scan_button", "dat_stop_scan_button",
                   "dat_scan_status_var"}

\* the main loop runs the oldest queued callback
RunAfter ==
    /\ after_queue # <<>>
    /\ LET cb == Head(after_queue)
           done == cb.fn \in {"_dat_scan_complete", "_dat_scan_cancelled"}
       IN /\ ui_writes' = ui_writes \cup Wrote("main", WidgetsOf(cb.fn))
          /\ dat_results_tree' =
                IF cb.fn = "insert" THEN Append(dat_results_tree, cb.row)
                ELSE dat_results_tree
          /\ dat_scan_running' = IF done THEN FALSE ELSE dat_scan_running
          /\ dat_scan_cancelled' = IF done THEN FALSE ELSE dat_scan_cancelled
          /\ dat_start_scan_button' =
                IF done THEN "normal" ELSE dat_start_scan_button
          /\ dat_stop_scan_button' =
                IF done THEN "disabled" ELSE dat_stop_scan_button
          /\ dat_execute_button' =
                IF cb.fn = "_dat_scan_complete" /\ HasMatches(dat_matched_files)
                THEN "normal" ELSE dat_execute_button
    /\ after_queue' = Tail(after_queue)
    /\ UNCHANGED <<scanHist, threads, scan_starts, dat_hash_map, dat_matched_files,
                   notDatTab, dupVars, cacheVars>>

InitScan ==
    /\ OthersIdle
    /\ disk = ScanFolder
    /\ pre_disk = disk
    /\ files_data = <<>>
    /\ RenameIdle
    /\ DatIdle
    /\ DupIdle
    /\ cache_fs = [q \in CachePaths |-> [content |-> "c1", mtime |-> 1]]
    /\ hash_cache_file = <<>>
    /\ dup_hash_cache = <<>>
    /\ cmp_hash_cache = <<>>
    /\ cached_at = {}
    /\ lookups = <<>>
    /\ persisted_ever = {}
    /\ cache_steps = 0
    /\ writes = 0
    /\ ScanControlsIdle
    /\ CueIdle
    /\ GamelistIdle
    /\ dat_hash_map \in Dats(disk)

NextScan ==
    \/ StartCompare
    \/ \E t \in 1..MaxThreads : CompareWorkerProgress(t)
    \/ \E t \in 1..MaxThreads : CompareWorkerHash(t)
    \/ \E t \in 1..MaxThreads : CompareWorkerFinish(t)
    \/ \E t \in 1..MaxThreads : CompareWorkerError(t)
    \/ StartDatScan
    \/ StopDatScan
    \/ \E t \in 1..MaxThreads : DatWorkerCancelled(t)
    \/ \E t \in 1..MaxThreads : DatWorkerWalk(t)
    \/ \E t \in 1..MaxThreads : DatWorkerFile(t)
    \/ \E t \in 1..MaxThreads : DatWorkerFinish(t)
    \/ RunAfter

SpecScan == InitScan /\ [][NextScan]_vars

\* C9: at most one scan or compare worker thread of a tab runs at any
\* time: a second scan cannot start on a tab while that tab's previous
\* worker is still running.
C9_OneWorkerPerTab ==
    /\ Cardinality(Running("compare")) <= 1
    /\ Cardinality(Running("dat_scan")) <= 1

\* C11: a finished scan has queued exactly one terminal state, and that
\* state is "cancelled" whenever Stop was clicked while the scan's worker
\* had files left to process.
C11_CancelledScanReportsCancelled ==
    \A t \in 1..MaxThreads :
        terminals[t] # <<>> =>
            /\ Len(terminals[t]) = 1
            /\ scan_flagged[t] => terminals[t] = <<"cancelled">>

\* C10: no worker thread writes a Tk variable, a widget or a dialog; every
\* UI write is made on the main thread.
C10_WorkersNeverWriteUi ==
    \A w \in ui_writes : w.thread = "main"

---------------------------------------------------------------------------
(* The rename workers, attempt by attempt.  The folder holds a .cue sheet;  *)
(* the files named a and A are .bin images, the file named b is not.       *)

\* old_name.lower().endswith('.bin')
EndsWithBin(n) == n.stem # "b"

CueNames == {[stem |-> "cue", sfx |-> <<>>]}

\* the FILE references of the folder's .cue sheets
CueSheets ==
    [CueNames -> {<<[stem |-> "a", sfx |-> <<>>]>>,
                  <<[stem |-> "a", sfx |-> <<>>], [stem |-> "b", sfx |-> <<>>]>>}]

\* cue_updates_needed after the entry's .bin check, which comes once per
\* entry, before the first attempt
CueNoted(e) ==
    IF attempt = 0 /\ EndsWithBin(e.old)
    THEN Append(cue_updates_needed, e) ELSE cue_updates_needed

\* _update_cue_files: bin_renames has the old name as a key
Renamed(n, updates) == \E i \in DOMAIN updates : updates[i].old = n

\* _update_cue_files: bin_renames[old], the last entry of the old name
BinRename(n, updates) ==
    LET hits == {i \in DOMAIN updates : updates[i].old = n}
    IN updates[CHOOSE i \in hits : \A j \in hits : j <= i].new

\* _update_cue_files: the FILE lines of a sheet after the rewrite
RewriteCue(refs, updates) ==
    [i \in DOMAIN refs |->
        IF Renamed(refs[i], updates) THEN BinRename(refs[i], updates)
        ELSE refs[i]]

\* _update_cue_files: the sheets with a FILE line to rewrite
ModifiedCues(cues, updates) ==
    {c \in DOMAIN cues : \E i \in DOMAIN cues[c] : Renamed(cues[c][i], updates)}

\* the sheets in os.listdir order
RECURSIVE CueOrder(_)
CueOrder(S) ==
    IF S = {} THEN <<>>
    ELSE LET c == CHOOSE x \in S : TRUE IN <<c>> \o CueOrder(S \ {c})

\* _update_cue_files: the errors appended for the sheets that could not be
\* written
CueErrors(flow, failing) ==
    LET order == CueOrder(failing)
    IN [i \in DOMAIN order |->
            IF flow = "regex" THEN [name |-> order[i], why |-> "cue"]
            ELSE order[i]]

max_retries == 5

\* what os.rename raises: file in use (32) and access denied (5) arrive as
\* PermissionError, volume externally altered (1006) and file not found (2)
\* as other OSErrors
OsErrors ==
    {[cls |-> "PermissionError", winerror |-> 5],
     [cls |-> "PermissionError", winerror |-> 32],
     [cls |-> "OSError", winerror |-> 1006],
     [cls |-> "OSError", winerror |-> 2]}

NoError == [cls |-> "", winerror |-> 0]

\* the errors the retry loop names: WinError 32, 1006 and 5
Retriable(err) == err.winerror \in {32, 1006, 5}

RECURSIVE Pow2(_)
Pow2(n) == IF n = 0 THEN 1 ELSE 2 * Pow2(n - 1)

\* time.sleep of the retry loop, in tenths of a second
Backoff(err, n) ==
    IF err.cls = "PermissionError" THEN 2 * Pow2(n) ELSE 3 * Pow2(n)

\* the plans a worker is started with: one or two files of the folder, each
\* with a new name
RetryEntries(d) ==
    {e \in [old : DOMAIN d, new : BaseNames] : e.new # e.old}

RetryPlans(d) ==
    {<<e>> : e \in RetryEntries(d)} \cup
    {<<p[1], p[2]>> : p \in {q \in RetryEntries(d) \X RetryEntries(d) :
                                q[1].old # q[2].old}}

\* execute_rename / _perform_dat_rename: the worker thread is started with
\* a final plan; the DAT tab's plan has distinct targets that do not exist
StartRenameWorker ==
    /\ ren_pc = "idle"
    /\ \E flow \in {"regex", "dat"}, plan \in RetryPlans(disk) :
        /\ flow = "dat" => DatFinalPlan(plan, disk) = plan
        /\ rt_flow' = flow
        /\ final_rename_plan' = plan
        /\ rename_results' = IF flow = "regex" THEN NoResults ELSE DatNoResults
    /\ ren_pc' = "running"
    /\ ren_idx' = 1
    /\ worker_undo' = <<>>
    /\ attempt' = 0
    /\ attempt_log' = <<>>
    /\ entry_result' = "none"
    /\ entry_outcomes' = <<>>
    /\ cue_updates_needed' = <<>>
    /\ cue_pre' = cue_files
    /\ pre_disk' = disk
    /\ batch_log' = <<>>
    /\ last_op' = "batch"
    /\ batches' = batches + 1
    /\ UNCHANGED <<disk, files_data, rename_button, preview_existing,
                   undo_history, datVars, external, dupVars, cacheVars,
                   scanVars,
                   undoVars, gamelistVars, dat_undo_history, planVars, otherVars,
                   cue_files>>

\* a per-file error that is listed and not counted
FailedUncounted(results, name, why) ==
    [results EXCEPT !.errors = Append(@, [name |-> name, why |-> why])]

\* results after a recorded per-file error of the regex flow
Failed(results, name, why) ==
    [results EXCEPT !.errors = Append(@, [name |-> name, why |-> why]),
                    !.error_count = @ + 1]

\* results after a successful rename of the regex flow
Succeeded(results) == [results EXCEPT !.success_count = @ + 1]

\* the log of the entry's calls after one more call
Logged(call, err, wait) ==
    (IF attempt = 0 /\ call = "rename" THEN <<>> ELSE attempt_log)
        \o <<[call |-> call, err |-> err, wait |-> wait]>>

\* the worker leaves the entry with one recorded outcome
NextEntry(result) ==
    /\ ren_idx' = ren_idx + 1
    /\ attempt' = 0
    /\ entry_result' = result
    /\ entry_outcomes' = Append(entry_outcomes, ren_idx)

\* the retry loop goes on with the same entry
SameEntry ==
    /\ entry_result' = "none"
    /\ UNCHANGED <<ren_idx, entry_outcomes>>

\* _perform_renames: the destination exists, the entry is an error
RegexDestinationExists ==
    /\ ren_pc = "running"
    /\ rt_flow = "regex"
    /\ ren_idx <= Len(final_rename_plan)
    /\ attempt = 0
    /\ LET e == final_rename_plan[ren_idx]
       IN /\ Exists(disk, e.new)
          /\ rename_results' = Failed(rename_results, e.old, "exists")
    /\ attempt_log' = <<>>
    /\ NextEntry("failed")
    /\ UNCHANGED <<disk, worker_undo, batch_log, rt_flow, files_data,
                   rename_button, preview_existing, undo_history,
                   final_rename_plan, ren_pc, datVars, pre_disk, last_op,
                   batches, external, dupVars, cacheVars, scanVars,
                   undoVars, gamelistVars, dat_undo_history, planVars, otherVars,
                   cueVars>>

\* _perform_renames: os.rename succeeds
RegexRenameOk ==
    /\ ren_pc = "running"
    /\ rt_flow = "regex"
    /\ ren_idx <= Len(final_rename_plan)
    /\ LET e == final_rename_plan[ren_idx]
       IN /\ attempt > 0 \/ ~Exists(disk, e.new)
          /\ Exists(disk, e.old)
          /\ disk' = Move(disk, e.old, e.new)
          /\ worker_undo' = Append(worker_undo, <<e.new, e.old>>)
          /\ batch_log' = Append(batch_log, <<e.new, e.old>>)
    /\ rename_results' = Succeeded(rename_results)
    /\ attempt_log' = Logged("rename", NoError, 0)
    /\ NextEntry("success")
    /\ cue_updates_needed' = CueNoted(final_rename_plan[ren_idx])
    /\ UNCHANGED <<rt_flow, files_data, rename_button, preview_existing,
                   undo_history, final_rename_plan, ren_pc, datVars, pre_disk,
                   last_op, batches, external, dupVars, cacheVars, scanVars,
                   undoVars, gamelistVars, dat_undo_history, planVars, otherVars,
                   cue_files, cue_pre>>

\* _perform_renames: os.rename raises PermissionError; the loop sleeps and
\* goes on, or records the error on the last attempt
RegexPermissionError ==
    /\ ren_pc = "running"
    /\ rt_flow = "regex"
    /\ ren_idx <= Len(final_rename_plan)
    /\ LET e == final_rename_plan[ren_idx]
       IN /\ attempt > 0 \/ ~Exists(disk, e.new)
          /\ \E err \in {x \in OsErrors : x.cls = "PermissionError"} :
              IF attempt < max_retries - 1
              THEN /\ attempt_log' = Logged("rename", err, Backoff(err, attempt))
                   /\ attempt' = attempt + 1
                   /\ UNCHANGED rename_results
                   /\ SameEntry
              ELSE /\ attempt_log' = Logged("rename", err, 0)
                   /\ rename_results' =
                         Failed(rename_results, e.old, "Permission denied")
                   /\ NextEntry("failed")
    /\ cue_updates_needed' = CueNoted(final_rename_plan[ren_idx])
    /\ UNCHANGED <<disk, worker_undo, batch_log, rt_flow, files_data,
                   rename_button, preview_existing, undo_history,
                   final_rename_plan, ren_pc, datVars, pre_disk, last_op,
                   batches, external, dupVars, cacheVars, scanVars,
                   undoVars, gamelistVars, dat_undo_history, planVars, otherVars,
                   cue_files, cue_pre>>

\* _perform_renames: os.rename raises another OSError.  WinError 32, 1006
\* and 5 sleep and go on, with shutil.move tried on the attempt before the
\* last, and record the error on the last attempt; any other error is
\* raised to the outer handler, which records it
RegexOSError ==
    /\ ren_pc = "running"
    /\ rt_flow = "regex"
    /\ ren_idx <= Len(final_rename_plan)
    /\ LET e == final_rename_plan[ren_idx]
       IN /\ attempt > 0 \/ ~Exists(disk, e.new)
          /\ \E err \in {x \in OsErrors : x.cls = "OSError"}, moved \in BOOLEAN :
              IF ~Retriable(err)
              THEN /\ ~moved
                   /\ attempt_log' = Logged("rename", err, 0)
                   /\ rename_results' = Failed(rename_results, e.old, "oserror")
                   /\ NextEntry("failed")
                   /\ UNCHANGED <<disk, worker_undo, batch_log>>
              ELSE IF attempt = max_retries - 1
              THEN /\ ~moved
                   /\ attempt_log' = Logged("rename", err, 0)
                   /\ rename_results' =
                         Failed(rename_results, e.old, "Volume access error")
                   /\ NextEntry("failed")
                   /\ UNCHANGED <<disk, worker_undo, batch_log>>
              ELSE IF attempt = max_retries - 2
              THEN IF moved
                   THEN /\ Exists(disk, e.old)
                        /\ attempt_log' =
                              Logged("rename", err, Backoff(err, attempt))
                                \o <<[call |-> "move", err |-> NoError,
                                      wait |-> 0]>>
                        /\ disk' = Move(disk, e.old, e.new)
                        /\ worker_undo' = Append(worker_undo, <<e.new, e.old>>)
                        /\ batch_log' = Append(batch_log, <<e.new, e.old>>)
                        /\ rename_results' = Succeeded(rename_results)
                        /\ NextEntry("success")
                   ELSE /\ attempt_log' =
                              Logged("rename", err, Backoff(err, attempt))
                                \o <<[call |-> "move", err |-> err,
                                      wait |-> 0]>>
                        /\ attempt' = attempt + 1
                        /\ UNCHANGED <<disk, worker_undo, batch_log, rename_results>>
                        /\ SameEntry
              ELSE /\ ~moved
                   /\ attempt_log' = Logged("rename", err, Backoff(err, attempt))
                   /\ attempt' = attempt + 1
                   /\ UNCHANGED <<disk, worker_undo, batch_log, rename_results>>
                   /\ SameEntry
    /\ cue_updates_needed' = CueNoted(final_rename_plan[ren_idx])
    /\ UNCHANGED <<rt_flow, files_data, rename_button, preview_existing,
                   undo_history, final_rename_plan, ren_pc, datVars, pre_disk,
                   last_op, batches, external, dupVars, cacheVars, scanVars,
                   undoVars, gamelistVars, dat_undo_history, planVars, otherVars,
                   cue_files, cue_pre>>

\* rename_worker of the DAT tab, one plan entry: one os.rename; whatever it
\* raises is recorded
DatRenameAttempt ==
    /\ ren_pc = "running"
    /\ rt_flow = "dat"
    /\ ren_idx <= Len(final_rename_plan)
    /\ LET e == final_rename_plan[ren_idx]
       IN \/ /\ Exists(disk, e.old)
             /\ disk' = Move(disk, e.old, e.new)
             /\ rename_results' =
                   [rename_results EXCEPT
                       !.success = @ + 1,
                       !.undo_history = Append(@, <<e.new, e.old>>)]
             /\ batch_log' = Append(batch_log, <<e.new, e.old>>)
             /\ attempt_log' = Logged("rename", NoError, 0)
             /\ NextEntry("success")
          \/ /\ \E err \in OsErrors :
                  attempt_log' = Logged("rename", err, 0)
             /\ rename_results' =
                   [rename_results EXCEPT !.errors = Append(@, e.old)]
             /\ NextEntry("failed")
             /\ UNCHANGED <<disk, batch_log>>
    /\ cue_updates_needed' = CueNoted(final_rename_plan[ren_idx])
    /\ UNCHANGED <<worker_undo, rt_flow, files_data, rename_button,
                   preview_existing, undo_history, final_rename_plan, ren_pc,
                   datVars, pre_disk, last_op, batches, external, dupVars,
                   cacheVars, scanVars,
                   undoVars, gamelistVars, dat_undo_history, planVars, otherVars,
                   cue_files, cue_pre>>

\* the worker after the last entry: _update_cue_files rewrites the sheets
\* that name a file of cue_updates_needed, each write succeeding or failing;
\* the regex flow stores its undo log in the results; the results callback
\* is queued
FinishRenameWorker ==
    /\ ren_pc = "running"
    /\ ren_idx > Len(final_rename_plan)
    /\ \E failing \in SUBSET ModifiedCues(cue_files, cue_updates_needed) :
        /\ cue_files' =
              [c \in DOMAIN cue_files |->
                  IF c \in ModifiedCues(cue_files, cue_updates_needed) \ failing
                  THEN RewriteCue(cue_files[c], cue_updates_needed)
                  ELSE cue_files[c]]
        /\ rename_results' =
              IF rt_flow = "regex"
              THEN [rename_results EXCEPT
                       !.errors = @ \o CueErrors(rt_flow, failing),
                       !.undo_history = worker_undo]
              ELSE [rename_results EXCEPT
                       !.errors = @ \o CueErrors(rt_flow, failing)]
    /\ ren_pc' = "finished"
    /\ UNCHANGED <<disk, files_data, rename_button, preview_existing,
                   undo_history, final_rename_plan, ren_idx, worker_undo,
                   datVars, pre_disk, batch_log, last_op, batches, external,
                   retryVars, dupVars, cacheVars, scanVars,
                   undoVars, gamelistVars, dat_undo_history, planVars, otherVars,
                   cue_updates_needed, cue_pre>>

InitRetry ==
    /\ OthersIdle
    /\ disk = ScanFolder
    /\ pre_disk = disk
    /\ files_data \in Listings(disk)
    /\ RenameIdle
    /\ DatIdle
    /\ DupIdle
    /\ CacheIdle
    /\ ScanIdle
    /\ cue_files \in CueSheets
    /\ cue_updates_needed = <<>>
    /\ cue_pre = cue_files
    /\ GamelistIdle

NextRetry ==
    \/ StartRenameWorker
    \/ RegexDestinationExists
    \/ RegexRenameOk
    \/ RegexPermissionError
    \/ RegexOSError
    \/ DatRenameAttempt
    \/ FinishRenameWorker

SpecRetry == InitRetry /\ [][NextRetry]_vars

Calls(call) == {i \in DOMAIN attempt_log : attempt_log[i].call = call}

\* C13: when the regex rename worker has finished, every plan entry has
\* exactly one recorded outcome, in plan order, whatever happened to the
\* entries before it, and success_count + error_count is the number of
\* plan entries.
C13_EveryEntryOneOutcome ==
    (ren_pc = "finished" /\ rt_flow = "regex") =>
        /\ entry_outcomes = [i \in DOMAIN final_rename_plan |-> i]
        /\ rename_results.success_count + rename_results.error_count
              = Len(final_rename_plan)

\* a batch has finished in which a failed entry was followed by a renamed
\* one
C13_Witness ==
    /\ ren_pc = "finished"
    /\ rt_flow = "regex"
    /\ Len(final_rename_plan) = 2
    /\ rename_results.error_count = 1
    /\ rename_results.success_count = 1
    /\ entry_result = "success"
    /\ Calls("move") # {}

\* a FILE reference of a sheet names an existing file of the folder
Resolves(d, ref) == Exists(d, ref)

\* C15: when a rename batch has finished, every FILE reference of a .cue
\* sheet that named an existing .bin of the folder before the batch names
\* an existing file, whatever the outcome of the renames.
C15_CueStillResolves ==
    ren_pc = "finished" =>
        \A c \in DOMAIN cue_pre : \A i \in DOMAIN cue_pre[c] :
            (EndsWithBin(cue_pre[c][i]) /\ Resolves(pre_disk, cue_pre[c][i]))
                => Resolves(disk, cue_files[c][i])

\* C12: a rename that ends in failure after file-in-use, access-denied or
\* volume-altered errors only was attempted max_retries times with growing
\* waits in between and a move-based rename before the last attempt, and
\* no rename is attempted more than max_retries times.
C12_RetriedWithMoveFallback ==
    /\ Cardinality(Calls("rename")) <= max_retries
    /\ (/\ entry_result = "failed"
        /\ attempt_log # <<>>
        /\ \A i \in DOMAIN attempt_log : Retriable(attempt_log[i].err))
       => /\ Cardinality(Calls("rename")) = max_retries
          /\ Calls("move") # {}
          /\ \A i, j \in Calls("rename") :
                i < j /\ j < Len(attempt_log)
                    => attempt_log[i].wait < attempt_log[j].wait

---------------------------------------------------------------------------
(* Undo over any undo log and any folder: other programs may have moved,   *)
(* removed or created files since the batch.                               *)

\* the folders Undo can meet: any files with the names of the batch
UndoNames == [stem : Stems, sfx : {<<>>}]

UndoFolders == {[n \in S |-> ContentOf(n)] : S \in SUBSET UndoNames}

\* undo logs: <<new_path, old_path>> pairs
UndoPairs == {p \in UndoNames \X UndoNames : p[1] # p[2]}

UndoLogs == UNION {[1..k -> UndoPairs] : k \in 1..MaxUndoLog}

InitUndo ==
    /\ OthersIdle
    /\ disk \in UndoFolders
    /\ pre_disk = disk
    /\ files_data \in Listings(disk)
    /\ rename_button = "disabled"
    /\ preview_existing = {}
    /\ batch_log \in UndoLogs
    /\ \/ undo_history = batch_log /\ dat_undo_history = <<>>
       \/ undo_history = <<>> /\ dat_undo_history = batch_log
    /\ rename_results = NoResults
    /\ final_rename_plan = <<>>
    /\ ren_pc = "idle"
    /\ ren_idx = 1
    /\ worker_undo = <<>>
    /\ last_op = "batch"
    /\ batches = 1
    /\ external = <<>>
    /\ RetryIdle
    /\ PlanIdle
    /\ dat_matched_files = <<>>
    /\ dat_results_tree = <<>>
    /\ dat_execute_button = "disabled"
    /\ DupIdle
    /\ CacheIdle
    /\ ScanIdle
    /\ CueIdle
    /\ GamelistIdle

NextUndo ==
    \/ UndoRename
    \/ UndoDatRename

SpecUndo == InitUndo /\ [][NextUndo]_vars

\* entry i finds no file at its new_path: none was there before Undo and
\* no earlier entry moves one there
MissingAt(i) ==
    /\ batch_log[i][1] \notin DOMAIN pre_disk
    /\ \A j \in 1..(i - 1) : batch_log[j][2] # batch_log[i][1]

\* entry i finds its old_path occupied: a file was there before Undo and
\* no earlier entry moves it away
OccupiedAt(i) ==
    /\ batch_log[i][2] \in DOMAIN pre_disk
    /\ \A j \in 1..(i - 1) : batch_log[j][1] # batch_log[i][2]

ErrorAt(i) == \E k \in DOMAIN undo_errors : undo_errors[k].idx = i

\* C14: after Undo every entry of the log has been processed, an entry
\* whose renamed file is missing or whose old_path is occupied is reported
\* as an error and skipped, and no file that existed before Undo has been
\* overwritten: the content of each is still in the folder.
C14_UndoSkipsAndNeverOverwrites ==
    last_op = "undo" =>
        /\ undo_success + Len(undo_errors) = Len(batch_log)
        /\ \A i \in DOMAIN batch_log :
              MissingAt(i) \/ OccupiedAt(i) => ErrorAt(i)
        /\ \A n \in DOMAIN pre_disk : \E m \in DOMAIN disk : disk[m] = pre_disk[n]

\* an undo met a missing file and an occupied old_path and then still
\* reverted a later entry
C14_Witness ==
    /\ last_op = "undo"
    /\ Len(batch_log) = 3
    /\ MissingAt(1)
    /\ OccupiedAt(2) /\ ~MissingAt(2)
    /\ ~ErrorAt(3)
    /\ undo_success = 1

---------------------------------------------------------------------------
(* gamelist.xml across the two rename tabs: both tabs work on the folder   *)
(* the manager has open, each with its own undo history, and both call     *)
(* update_gamelist_xml and _restore_gamelist_backup on its gamelist.xml    *)

\* what gamelist.xml lists: some of the folder's files, each once
Gamelists(d) ==
    {<<s>> : s \in {q \in UNION {[1..k -> DOMAIN d] : k \in 1..MaxGames} :
                        \A i, j \in DOMAIN q : i # j => q[i] # q[j]}}

InitGamelist ==
    /\ OthersIdle
    /\ ScanIdle
    /\ CueIdle
    /\ disk = ScanFolder
    /\ pre_disk = disk
    /\ files_data \in Listings(disk)
    /\ RenameIdle
    /\ DatIdle
    /\ DupIdle
    /\ CacheIdle
    /\ gamelist \in Gamelists(disk)
    /\ gamelist_backup = <<>>
    /\ gl_before = [t \in Tabs |-> [content |-> <<>>, rewrote |-> FALSE]]
    /\ gl_last = [op |-> "none", tab |-> ""]

NextGamelist ==
    \/ PreviewRename
    \/ ExecuteRename
    \/ PerformRename
    \/ FinishRenames
    \/ ShowRenameResults
    \/ UndoRename
    \/ DatScan
    \/ ExecuteDatRename
    \/ PerformDatRename
    \/ FinishDatRenames
    \/ ShowDatRenameResults
    \/ UndoDatRename

SpecGamelist == InitGamelist /\ [][NextGamelist]_vars

\* C16: when a batch has rewritten gamelist.xml, gamelist.xml.backup holds
\* the content the file had before that batch; and when that batch has been
\* undone, gamelist.xml holds exactly that content again.
C16_UndoRestoresGamelist ==
    (gl_last.op # "none" /\ gl_before[gl_last.tab].rewrote) =>
        /\ gl_last.op = "batch" =>
              gamelist_backup = gl_before[gl_last.tab].content
        /\ gl_last.op = "undo" =>
              gamelist = gl_before[gl_last.tab].content

---------------------------------------------------------------------------
(* The collision strategies of execute_rename and _perform_dat_rename,     *)
(* read off the plan the handler hands to its worker                       *)

\* the candidates of the batch whose target is n, in the order of the
\* listing
CandidatesFor(n) ==
    LET Targets(e) == e.new = n
    IN SelectSeq(rename_plan, Targets)

\* the entries of the final plan for a file
FinalFor(old) ==
    LET Renames(e) == e.old = old
    IN SelectSeq(final_rename_plan, Renames)

\* a collision group whose members all map to the one name n
SameNameGroup(n) ==
    /\ Len(CandidatesFor(n)) > 1
    /\ GroupOf(rename_plan, Lower(n)) = CandidatesFor(n)

\* the group of n gets n_1 ... n_k, one per member in listing order
SuffixedInOrder(n) ==
    \A i \in DOMAIN CandidatesFor(n) :
        FinalFor(CandidatesFor(n)[i].old) =
            <<[old |-> CandidatesFor(n)[i].old, new |-> Suffixed(n, i)]>>

NoCollisionRemains ==
    \A i, j \in DOMAIN final_rename_plan :
        i # j => final_rename_plan[i].new # final_rename_plan[j].new

\* C18: under the suffix strategy a collision group of n candidates that
\* all map to one name gets exactly the targets name_1 ... name_n, one per
\* member in directory order, and no two entries of the final plan share a
\* target.
C18_SuffixNamesAndNoCollision ==
    (ren_pc = "running" /\ collision_strategy = "suffix") =>
        /\ \A n \in BaseNames : SameNameGroup(n) => SuffixedInOrder(n)
        /\ NoCollisionRemains

\* the first half of C18 alone: the names a group gets
C18_GroupPart ==
    (ren_pc = "running" /\ collision_strategy = "suffix") =>
        \A n \in BaseNames : SameNameGroup(n) => SuffixedInOrder(n)

\* three candidates with one target were planned under the suffix strategy
C18_GroupWitness ==
    /\ ren_pc = "running" /\ collision_strategy = "suffix"
    /\ \E n \in BaseNames : Len(CandidatesFor(n)) = 3 /\ SameNameGroup(n)

\* the collision group of a candidate: the candidates whose target has the
\* same lower-case name
CollisionGroup(e) == GroupOf(rename_plan, Lower(e.new))

\* a candidate is left out of the final plan
Dropped(e) == FinalFor(e.old) = <<>>

\* a candidate is in the final plan as it was planned
KeptUnchanged(e) == FinalFor(e.old) = <<e>>

\* C19 for the regex tab alone
C19_RegexSkip ==
    (ren_pc = "running" /\ collision_strategy = "skip") =>
        \A i \in DOMAIN rename_plan :
            IF Len(CollisionGroup(rename_plan[i])) > 1
            THEN Dropped(rename_plan[i])
            ELSE KeptUnchanged(rename_plan[i])

\* a collision group was planned under skip next to a candidate with a
\* target of its own
C19_RegexWitness ==
    /\ ren_pc = "running" /\ collision_strategy = "skip"
    /\ \E i, j \in DOMAIN rename_plan :
        /\ Len(CollisionGroup(rename_plan[i])) > 1
        /\ Len(CollisionGroup(rename_plan[j])) = 1

\* C19: under the skip strategy, which is the only one of the DAT tab,
\* every member of every collision group is absent from the final plan,
\* and every candidate whose target is unique in the batch (and free in the
\* folder) is in the final plan unchanged.
C19_SkipDropsGroupsKeepsUnique ==
    ((ren_pc = "running" /\ collision_strategy = "skip")
        \/ ren_pc = "dat_running") =>
        \A i \in DOMAIN rename_plan :
            IF Len(CollisionGroup(rename_plan[i])) > 1
            THEN Dropped(rename_plan[i])
            ELSE Exists(pre_disk, rename_plan[i].new)
                    \/ KeptUnchanged(rename_plan[i])

---------------------------------------------------------------------------
(* Auto-selection by file name pattern *)

\* a step of apply_auto_selection with the strategy "pattern"
ApplyPattern ==
    /\ Interactive
    /\ duplicate_groups # <<>>
    /\ dup_tree' = [g \in DOMAIN dup_tree |->
                        [dup_tree[g] EXCEPT
                            !.children = AutoSelected(@, dup_files, "pattern")]]

\* the members of a shown group with the highest score
Highest(children) ==
    {i \in DOMAIN children : \A j \in DOMAIN children :
        Score(FilenameLower(children[i].path))
            >= Score(FilenameLower(children[j].path))}

\* C20: after auto-selection by file name pattern, the member marked Keep
\* in each group is the first-seen of the members with the highest score.
C20_PatternKeepsHighestScore ==
    [][ApplyPattern =>
            \A g \in DOMAIN dup_tree' :
                \A i \in DOMAIN dup_tree'[g].children :
                    dup_tree'[g].children[i].action = "Keep"
                        <=> (/\ i \in Highest(dup_tree'[g].children)
                             /\ \A j \in Highest(dup_tree'[g].children) :
                                    i <= j)]_vars

\* Sonic (USA).md is kept over Sonic (Europe).md
C20_SonicUsaKept ==
    [][ApplyPattern =>
            \A g \in DOMAIN dup_tree' :
                \A i, j \in DOMAIN dup_tree'[g].children :
                    (/\ dup_tree'[g].children[i].path = "p3"
                     /\ dup_tree'[g].children[j].path = "p4"
                     /\ Len(dup_tree'[g].children) = 2)
                        => dup_tree'[g].children[i].action = "Keep"]_vars

---------------------------------------------------------------------------
(* Matching a scanned file against the index of a DAT file *)

MaxDatEntries == 2

HashKinds == {"crc32", "md5", "sha1"}

\* a hex string as the DAT file or hexdigest() writes it: the digest it
\* spells, and whether its letters are upper case
Hex(d, up) == [hex |-> d, upper |-> up]

\* rom.get('crc', ''): the attribute is absent
NoAttr == Hex(Digest("", ""), FALSE)

\* str.lower
HexLower(h) == [h EXCEPT !.upper = FALSE]

\* the names and the <rom> attributes the DAT files hold
GameNames == {"", "n1", "n2"}
CrcAttrs == {NoAttr, Hex(Digest("r1", "crc32"), FALSE),
             Hex(Digest("r1", "crc32"), TRUE)}
Md5Attrs == {NoAttr, Hex(Digest("r1", "md5"), FALSE)}
Sha1Attrs == {NoAttr, Hex(Digest("r1", "sha1"), FALSE)}

DatEntries == [name : GameNames, crc32 : CrcAttrs, md5 : Md5Attrs,
               sha1 : Sha1Attrs]

DatFiles ==
    UNION {[1..n -> DatEntries] : n \in 1..MaxDatEntries}

\* the files a DAT scan meets: archives, and plain files
ScannedFiles ==
    [path : ZipPaths, content : CacheContents]
        \cup [path : {"f1"}, content : {"r1", "r2", "t1"}]

\* hash_to_name[key] = entry_name
Put(map, key, entry_name) ==
    [k \in DOMAIN map \cup {key} |-> IF k = key THEN entry_name ELSE map[k]]

\* parse_dat_file: the three assignments for one <rom>
IndexRom(map, entry) ==
    LET with_crc == IF entry.crc32 # NoAttr
                    THEN Put(map, HexLower(entry.crc32), entry.name) ELSE map
        with_md5 == IF entry.md5 # NoAttr
                    THEN Put(with_crc, HexLower(entry.md5), entry.name)
                    ELSE with_crc
    IN IF entry.sha1 # NoAttr
       THEN Put(with_md5, HexLower(entry.sha1), entry.name) ELSE with_md5

\* parse_dat_file: the loop over the entries; one without a name is skipped
RECURSIVE ParseEntries(_, _)
ParseEntries(entries, map) ==
    IF entries = <<>> THEN map
    ELSE ParseEntries(Tail(entries),
                      IF Head(entries).name = "" THEN map
                      ELSE IndexRom(map, Head(entries)))

parse_dat_file(entries) == ParseEntries(entries, <<>>)

\* the hex strings calculate_file_hashes returns
HexDigests(file_path, content) ==
    [m \in HashKinds |-> Hex(calculate_file_hashes(file_path, content)[m], FALSE)]

\* a lookup that tries the MD5 before the CRC32
DatLookupMd5First(map, h) ==
    IF h["md5"] \in DOMAIN map THEN map[h["md5"]]
    ELSE IF h["crc32"] \in DOMAIN map THEN map[h["crc32"]]
    ELSE IF h["sha1"] \in DOMAIN map THEN map[h["sha1"]]
    ELSE ""

\* _dat_scan_worker: the if / elif / elif over the three digests
DatLookup(map, h) ==
    IF h["crc32"] \in DOMAIN map THEN map[h["crc32"]]
    ELSE IF h["md5"] \in DOMAIN map THEN map[h["md5"]]
    ELSE IF h["sha1"] \in DOMAIN map THEN map[h["sha1"]]
    ELSE ""

\* every part of the program but the DAT index at rest
TabsIdle ==
    /\ PersistIdle
    /\ ScanIdle
    /\ CueIdle
    /\ GamelistIdle
    /\ RenameTabsIdle
    /\ DupIdle
    /\ CacheIdle

InitMatch ==
    /\ TabsIdle
    /\ CompareIdle
    /\ unreadable = {}
    /\ dat_entries \in DatFiles
    /\ scan_file \in ScannedFiles
    /\ hash_to_name = <<>>
    /\ scan_hashes = [error |-> FALSE, digests |-> <<>>]
    /\ matched_name = ""
    /\ match_pc = "idle"

\* load_dat_file: the DAT file is parsed into the index
LoadDat ==
    /\ match_pc = "idle"
    /\ hash_to_name' = parse_dat_file(dat_entries)
    /\ match_pc' = "loaded"
    /\ UNCHANGED <<dat_entries, scan_file, scan_hashes, matched_name, notMatch>>

\* _dat_scan_worker, one file: it is hashed and looked up; a file that
\* cannot be hashed is shown as an error and has no match
MatchFile ==
    /\ match_pc = "loaded"
    /\ LET raised == HashedBytes(scan_file.path, scan_file.content) = ""
           h == HexDigests(scan_file.path, scan_file.content)
       IN /\ scan_hashes' = IF raised THEN [error |-> TRUE, digests |-> <<>>]
                            ELSE [error |-> FALSE, digests |-> h]
          /\ matched_name' = IF raised THEN "" ELSE DatLookup(hash_to_name, h)
    /\ match_pc' = "done"
    /\ UNCHANGED <<dat_entries, hash_to_name, scan_file, notMatch>>

NextMatch == LoadDat \/ MatchFile

SpecMatch == InitMatch /\ [][NextMatch]_vars

\* the named entries of the DAT file whose attribute of this kind is the
\* file's digest of this kind
EntriesWith(kind) ==
    {i \in DOMAIN dat_entries :
        /\ dat_entries[i].name # ""
        /\ dat_entries[i][kind] # NoAttr
        /\ HexLower(dat_entries[i][kind]) = scan_hashes.digests[kind]}

NamesWith(kind) == {dat_entries[i].name : i \in EntriesWith(kind)}

\* C21: a hashed file gets the name of an entry found through its CRC32;
\* failing that, through its MD5; failing that, through its SHA1; and no
\* name when none of the three is in the DAT file. When the CRC32 is that
\* of one entry and the MD5 that of another, the name is the CRC32 entry's.
C21_FirstHitCrcMd5Sha1 ==
    (match_pc = "done" /\ ~scan_hashes.error) =>
        /\ NamesWith("crc32") # {} => matched_name \in NamesWith("crc32")
        /\ (NamesWith("crc32") = {} /\ NamesWith("md5") # {}) =>
                matched_name \in NamesWith("md5")
        /\ (NamesWith("crc32") = {} /\ NamesWith("md5") = {}
                /\ NamesWith("sha1") # {}) => matched_name \in NamesWith("sha1")
        /\ (NamesWith("crc32") = {} /\ NamesWith("md5") = {}
                /\ NamesWith("sha1") = {}) => matched_name = ""
        /\ \A i \in EntriesWith("crc32") :
              (EntriesWith("crc32") = {i} /\ EntriesWith("md5") \ {i} # {})
                  => matched_name = dat_entries[i].name

\* a file whose CRC32 is one entry's and whose MD5 is another entry's,
\* under a different name, has been looked up
C21_CrcAndMd5Disagree ==
    /\ match_pc = "done"
    /\ ~scan_hashes.error
    /\ \E i \in EntriesWith("crc32"), j \in EntriesWith("md5") :
          /\ EntriesWith("crc32") = {i}
          /\ EntriesWith("md5") = {j}
          /\ dat_entries[i].name # dat_entries[j].name
    /\ matched_name # ""

\* C24: hashing a ZIP archive gives the three digests of the content of
\* its first member that is not a directory and has a whitelisted
\* extension, the digests that content has when hashed as a plain file,
\* whatever else the archive holds; an archive with no such member gives
\* the no-ROM-found error and no digests.
C24_ZipHashesFirstWhitelistedEntry ==
    (match_pc = "done" /\ scan_file.path \in ZipPaths) =>
        LET file_list == NameList(scan_file.content)
            roms == {i \in DOMAIN file_list :
                        /\ file_list[i].ext # "/"
                        /\ file_list[i].ext \in ROM_EXTENSIONS_WHITELIST}
        IN IF roms = {}
           THEN scan_hashes = [error |-> TRUE, digests |-> <<>>]
           ELSE \E i \in roms :
                  /\ \A j \in roms : i <= j
                  /\ ~scan_hashes.error
                  /\ scan_hashes.digests = HexDigests("f1", file_list[i].data)

\* an archive whose first member is not a ROM and whose second is one has
\* been hashed
C24_RomBehindOtherMember ==
    /\ match_pc = "done"
    /\ scan_file.path \in ZipPaths
    /\ ~scan_hashes.error
    /\ NameList(scan_file.content)[1].ext \notin ROM_EXTENSIONS_WHITELIST
    /\ scan_hashes.digests = HexDigests("f1", NameList(scan_file.content)[2].data)

---------------------------------------------------------------------------
(* The Compare tab: the filter, the two comparisons and the copy *)

MaxCollFiles == 2
MaxCopies == 1

Sides == {"a", "b"}

\* the folder names and extensions of the two lists that the collections hold
EXCLUDED_FOLDER_NAMES == {"media", "saves"}
FILE_EXTENSIONS_BLACKLIST == {".txt", ".md"}

\* the files a collection can hold, in the order os.walk meets them: the
\* folder's own files first, then the files of its sub-folders
FileUniverse ==
    << [dir |-> "", name |-> "x.zip", content |-> "c1"],
       [dir |-> "", name |-> "y.zip", content |-> "c2"],
       [dir |-> "", name |-> "y.zip", content |-> "c3"],
       [dir |-> "", name |-> "z.zip", content |-> "c1"],
       [dir |-> "", name |-> "sonic.md", content |-> "c4"],
       [dir |-> "", name |-> "SONIC.MD", content |-> "c4"],
       [dir |-> "", name |-> "notes.txt", content |-> "c5"],
       [dir |-> "", name |-> "game.xyz", content |-> "c6"],
       [dir |-> "Media", name |-> "z.zip", content |-> "c7"],
       [dir |-> "sub", name |-> "x.zip", content |-> "c1"] >>

PathOf(f) == <<f.dir, f.name>>

Collections ==
    {S \in SUBSET Range(FileUniverse) :
        /\ Cardinality(S) <= MaxCollFiles
        /\ \A f, g \in S : PathOf(f) = PathOf(g) => f = g}

\* str.lower
StrLower(str) ==
    IF str = "Media" THEN "media"
    ELSE IF str = "SONIC.MD" THEN "sonic.md"
    ELSE IF str = ".MD" THEN ".md"
    ELSE str

\* os.path.splitext(file_path)[1]
SplitExt(name) ==
    IF name \in {"x.zip", "y.zip", "z.zip"} THEN ".zip"
    ELSE IF name = "sonic.md" THEN ".md"
    ELSE IF name = "SONIC.MD" THEN ".MD"
    ELSE IF name = "notes.txt" THEN ".txt"
    ELSE IF name = "game.xyz" THEN ".xyz"
    ELSE ""

\* Path(file_path).parts of a file of a collection
PathParts(side, f) ==
    <<"home", side>> \o (IF f.dir = "" THEN <<>> ELSE <<f.dir>>) \o <<f.name>>

\* a filter that asks the blacklist before the whitelist
ShouldIncludeBlacklistFirst(path_parts, filter_mode) ==
    LET ext_lower == StrLower(SplitExt(path_parts[Len(path_parts)]))
    IN IF filter_mode = "all_files" THEN TRUE
       ELSE IF \E i \in DOMAIN path_parts :
                    StrLower(path_parts[i]) \in EXCLUDED_FOLDER_NAMES
       THEN FALSE
       ELSE IF ext_lower \in FILE_EXTENSIONS_BLACKLIST THEN FALSE
       ELSE IF ext_lower \in ROM_EXTENSIONS_WHITELIST THEN TRUE
       ELSE IF ext_lower = ".zip" THEN TRUE
       ELSE FALSE

\* CompareTab.should_include_file, ROMManager.should_include_file
should_include_file(path_parts, filter_mode) ==
    LET ext_lower == StrLower(SplitExt(path_parts[Len(path_parts)]))
    IN IF filter_mode = "all_files" THEN TRUE
       ELSE IF \E i \in DOMAIN path_parts :
                    StrLower(path_parts[i]) \in EXCLUDED_FOLDER_NAMES
       THEN FALSE
       ELSE IF ext_lower \in ROM_EXTENSIONS_WHITELIST THEN TRUE
       ELSE IF ext_lower = ".zip" THEN TRUE
       ELSE IF ext_lower \in FILE_EXTENSIONS_BLACKLIST THEN FALSE
       ELSE FALSE

\* os.walk with dirs[:] pruned: the files of the folders the walk enters
Walked(coll, filter_mode) ==
    {f \in coll : \/ filter_mode # "rom_only"
                  \/ f.dir = ""
                  \/ StrLower(f.dir) \notin EXCLUDED_FOLDER_NAMES}

\* the walked files the filter lets in
IncludedFiles(side, coll, filter_mode) ==
    {f \in Walked(coll, filter_mode) :
        should_include_file(PathParts(side, f), filter_mode)}

\* the walked files the filter turns away: filtered_count
FilteredCount(side, coll, filter_mode) ==
    Cardinality(Walked(coll, filter_mode)
                    \ IncludedFiles(side, coll, filter_mode))

\* the place of a file in the walk
WalkIndex(f) == CHOOSE i \in DOMAIN FileUniverse : FileUniverse[i] = f

\* files_a[file] = full_path: the last file walked under a name stays
FilesByName(files) ==
    [n \in {f.name : f \in files} |->
        CHOOSE f \in files :
            /\ f.name = n
            /\ \A g \in files : g.name = n => WalkIndex(g) <= WalkIndex(f)]

\* _hash_file_quick: the digest of the file's bytes
HashQuick(f) == Digest(f.content, "sha1")

\* hashes_a[file_hash]: the first file walked with a digest stays
FilesByHash(files) ==
    [h \in {HashQuick(f) : f \in files} |->
        CHOOSE f \in files :
            /\ HashQuick(f) = h
            /\ \A g \in files : HashQuick(g) = h => WalkIndex(f) <= WalkIndex(g)]

\* a row of a result pane: the file name shown and the path in its tags
Row(f) == [filename |-> f.name, dir |-> f.dir]

\* every name of one side, whether the other side has it or not
QuickOnlyAll(files_x, files_y) ==
    {Row(files_x[n]) : n \in DOMAIN files_x}

\* only_in_a / only_in_b of the quick comparison
QuickOnly(files_x, files_y) ==
    {Row(files_x[n]) : n \in DOMAIN files_x \ DOMAIN files_y}

InitCompare ==
    /\ TabsIdle
    /\ MatchIdle
    /\ unreadable = {}
    /\ collections \in [Sides -> Collections]
    /\ compare_filter_mode \in {"rom_only", "all_files"}
    /\ compare_results = [mode |-> "none", only_a |-> {}, only_b |-> {},
                          both |-> {}, corrupted |-> {},
                          filtered_a |-> 0, filtered_b |-> 0]
    /\ compare_selection = [side \in Sides |-> {}]
    /\ cmp_pc = "idle"
    /\ included = [side \in Sides |-> {}]
    /\ copy_overwrote = {}
    /\ copies = 0

\* _display_compare_results: every row of both panes starts checked
DisplayCompareResults(results) ==
    compare_selection' = [side \in Sides |->
                            IF side = "a" THEN results.only_a
                            ELSE results.only_b]

\* _quick_compare_worker and the display of its results
QuickCompare ==
    /\ cmp_pc = "idle"
    /\ \E verify_integrity \in BOOLEAN :
        LET inc == [side \in Sides |->
                        IncludedFiles(side, collections[side],
                                      compare_filter_mode)]
            files_a == FilesByName(inc["a"])
            files_b == FilesByName(inc["b"])
            in_both == DOMAIN files_a \cap DOMAIN files_b
            results ==
                [mode |-> "quick",
                 only_a |-> QuickOnly(files_a, files_b),
                 only_b |-> QuickOnly(files_b, files_a),
                 both |-> in_both,
                 corrupted |->
                    IF verify_integrity
                    THEN {n \in in_both :
                            HashQuick(files_a[n]) # HashQuick(files_b[n])}
                    ELSE {},
                 filtered_a |-> FilteredCount("a", collections["a"],
                                              compare_filter_mode),
                 filtered_b |-> FilteredCount("b", collections["b"],
                                              compare_filter_mode)]
        IN /\ compare_results' = results
           /\ included' = inc
           /\ DisplayCompareResults(results)
    /\ cmp_pc' = "compared"
    /\ UNCHANGED <<collections, compare_filter_mode, copy_overwrote, copies,
                   notCompare>>

\* _deep_compare_worker and the display of its results
DeepCompare ==
    /\ cmp_pc = "idle"
    /\ LET inc == [side \in Sides |->
                        IncludedFiles(side, collections[side],
                                      compare_filter_mode)]
           hashes_a == FilesByHash(inc["a"])
           hashes_b == FilesByHash(inc["b"])
           results ==
                [mode |-> "deep",
                 only_a |-> {Row(hashes_a[h]) :
                                h \in DOMAIN hashes_a \ DOMAIN hashes_b},
                 only_b |-> {Row(hashes_b[h]) :
                                h \in DOMAIN hashes_b \ DOMAIN hashes_a},
                 both |-> DOMAIN hashes_a \cap DOMAIN hashes_b,
                 corrupted |-> {},
                 filtered_a |-> FilteredCount("a", collections["a"],
                                              compare_filter_mode),
                 filtered_b |-> FilteredCount("b", collections["b"],
                                              compare_filter_mode)]
       IN /\ compare_results' = results
          /\ included' = inc
          /\ DisplayCompareResults(results)
    /\ cmp_pc' = "compared"
    /\ UNCHANGED <<collections, compare_filter_mode, copy_overwrote, copies,
                   notCompare>>

\* on_compare_tree_click: the checkbox of one row is toggled
CompareTreeClick ==
    /\ cmp_pc = "compared"
    /\ \E side \in Sides :
        \E row \in (IF side = "a" THEN compare_results.only_a
                    ELSE compare_results.only_b) :
            compare_selection' =
                [compare_selection EXCEPT
                    ![side] = IF row \in @ THEN @ \ {row} ELSE @ \cup {row}]
    /\ UNCHANGED <<collections, compare_filter_mode, compare_results, cmp_pc,
                   included, copy_overwrote, copies, notCompare>>

\* the file of the source collection a row stands for
SourceFile(side, row) ==
    CHOOSE f \in collections[side] : Row(f) = row

\* copy_files_between_collections and its copy_worker: every checked row's
\* file is written to dest_path/filename with shutil.copy2
CopyFiles ==
    /\ cmp_pc = "compared"
    /\ copies < MaxCopies
    /\ \E direction \in {"a_to_b", "b_to_a"} :
        LET src == IF direction = "a_to_b" THEN "a" ELSE "b"
            dst == IF direction = "a_to_b" THEN "b" ELSE "a"
            files_to_copy == compare_selection[src]
            names == {row.filename : row \in files_to_copy}
            written == {[dir |-> "", name |-> row.filename,
                         content |-> SourceFile(src, row).content] :
                            row \in files_to_copy}
            replaced == {f \in collections[dst] :
                            f.dir = "" /\ f.name \in names}
        IN /\ files_to_copy # {}
           /\ collections' =
                [collections EXCEPT
                    ![dst] = (@ \ replaced) \cup written]
           /\ copy_overwrote' =
                copy_overwrote \cup {[side |-> dst, file |-> f] : f \in replaced}
    /\ copies' = copies + 1
    /\ UNCHANGED <<compare_filter_mode, compare_results, compare_selection,
                   cmp_pc, included, notCompare>>

NextCompare == QuickCompare \/ DeepCompare \/ CompareTreeClick \/ CopyFiles

SpecCompare == InitCompare /\ [][NextCompare]_vars

\* C22: in rom_only mode a file of a compared collection is let in exactly
\* when no component of its path is, in lower case, an excluded-folder
\* name and its lower-cased extension is on the whitelist or is .zip; the
\* blacklist does not take out a whitelisted extension such as .md.
C22_RomOnlyFilter ==
    (cmp_pc = "compared" /\ copies = 0 /\ compare_filter_mode = "rom_only") =>
        \A side \in Sides : \A f \in collections[side] :
            f \in included[side] <=>
                /\ \A part \in Range(PathParts(side, f)) :
                        StrLower(part) \notin EXCLUDED_FOLDER_NAMES
                /\ \/ StrLower(SplitExt(f.name)) \in ROM_EXTENSIONS_WHITELIST
                   \/ StrLower(SplitExt(f.name)) = ".zip"

\* sonic.md, whose extension is on both lists, was let in, and a file in
\* an excluded folder was not
C22_SonicMdIncluded ==
    /\ cmp_pc = "compared"
    /\ compare_filter_mode = "rom_only"
    /\ ".md" \in ROM_EXTENSIONS_WHITELIST \cap FILE_EXTENSIONS_BLACKLIST
    /\ \E f \in included["a"] : f.name = "sonic.md"
    /\ \E f \in collections["b"] : f.dir = "Media" /\ f \notin included["b"]

\* the names of the files of a side that passed the filter
NamesOf(side) == {f.name : f \in included[side]}

\* C25: the quick comparison partitions the names of the files that pass
\* the filter: only_a holds the names of A that are not names of B, only_b
\* the names of B that are not names of A, both the names they share.
C25_QuickPartition ==
    (cmp_pc = "compared" /\ compare_results.mode = "quick") =>
        /\ {row.filename : row \in compare_results.only_a}
                = NamesOf("a") \ NamesOf("b")
        /\ {row.filename : row \in compare_results.only_b}
                = NamesOf("b") \ NamesOf("a")
        /\ compare_results.both = NamesOf("a") \cap NamesOf("b")

\* A = {x.zip, y.zip} and B = {y.zip, z.zip} were compared in quick mode
\* and gave only_a = {x.zip}, only_b = {z.zip}, both = {y.zip}
C25_XYZ ==
    /\ cmp_pc = "compared"
    /\ compare_results.mode = "quick"
    /\ copies = 0
    /\ {PathOf(f) : f \in collections["a"]} = {<<"", "x.zip">>, <<"", "y.zip">>}
    /\ {PathOf(f) : f \in collections["b"]} = {<<"", "y.zip">>, <<"", "z.zip">>}
    /\ compare_results.only_a = {[filename |-> "x.zip", dir |-> ""]}
    /\ compare_results.only_b = {[filename |-> "z.zip", dir |-> ""]}
    /\ compare_results.both = {"y.zip"}

\* C30: no copy between the collections writes over a file that was in
\* the destination folder, after a quick or a deep comparison.
C30_CopyNeverOverwrites ==
    copy_overwrote = {}

\* the part of C30 that holds: the first copy after a quick comparison
\* writes over no file of the destination folder
C30_QuickCopyKeeps ==
    (compare_results.mode = "quick" /\ copies <= 1) => copy_overwrote = {}

---------------------------------------------------------------------------
(* The duplicate scan over folders with files that cannot be hashed *)

InitDupScan ==
    /\ PersistIdle
    /\ MatchIdle
    /\ CompareIdle
    /\ ScanIdle
    /\ CueIdle
    /\ GamelistIdle
    /\ RenameTabsIdle
    /\ CacheIdle
    /\ dup_files \in [DupPaths -> [hash : Hashes, mtime : MTimes]]
    /\ unreadable \in SUBSET DupPaths
    /\ duplicate_groups = <<>>
    /\ dup_tree = <<>>
    /\ group_selection = <<>>
    /\ del_pc = "idle"
    /\ files_to_delete = <<>>
    /\ del_idx = 1
    /\ del_marked = {}
    /\ del_unchecked = {}
    /\ removed = {}

NextDupScan == ScanDuplicates

SpecDupScan == InitDupScan /\ [][NextDupScan]_vars

\* the files of the folder that were hashed to this digest
BucketOf(h) == {q \in DOMAIN dup_files \ unreadable : dup_files[q].hash = h}

\* C23: the groups a scan produces are the digest buckets with two or more
\* successfully hashed files: one group per such bucket, holding each of
\* its files once, so every group has at least two members with one
\* digest and no bucket of one file is a group.
C23_GroupsAreBuckets ==
    [][ScanDuplicates =>
        /\ \A g \in DOMAIN duplicate_groups' :
              /\ Len(duplicate_groups'[g].paths) >= 2
              /\ Range(duplicate_groups'[g].paths)
                    = BucketOf(duplicate_groups'[g].hash)
              /\ Cardinality(Range(duplicate_groups'[g].paths))
                    = Len(duplicate_groups'[g].paths)
              /\ \A k \in DOMAIN duplicate_groups' :
                    duplicate_groups'[k].hash = duplicate_groups'[g].hash
                        => k = g
        /\ \A h \in Hashes :
              Cardinality(BucketOf(h)) >= 2
                  => \E g \in DOMAIN duplicate_groups' :
                        duplicate_groups'[g].hash = h]_vars

\* a scan has produced a group although one file with the group's digest
\* could not be hashed and another file sits alone in its bucket
C23_GroupBesideFailedAndSingle ==
    /\ Len(duplicate_groups) = 1
    /\ \E q \in unreadable : dup_files[q].hash = duplicate_groups[1].hash
    /\ \E h \in Hashes : Cardinality(BucketOf(h)) = 1
    /\ Len(dup_tree) = 1

---------------------------------------------------------------------------
(* Loading and saving the hash cache file *)

CacheFileStates == {"missing", "json", "unreadable", "corrupt"}

\* the exception classes the cache functions meet; all derive from Exception
ExceptionClasses == {"OSError", "JSONDecodeError", "TypeError"}

\* what open() and json.load raise on the cache file, "" when nothing
LoadRaises(file_state) ==
    IF file_state = "unreadable" THEN "OSError"
    ELSE IF file_state = "corrupt" THEN "JSONDecodeError"
    ELSE ""

\* load_hash_cache with "except OSError" in place of "except Exception"
load_hash_cache_oserror(file_state, file_dict) ==
    LET exc == IF file_state = "missing" THEN "" ELSE LoadRaises(file_state)
    IN IF file_state = "missing" THEN [raised |-> "", cache |-> <<>>]
       ELSE IF exc = "" THEN [raised |-> "", cache |-> file_dict]
       ELSE IF exc = "OSError" THEN [raised |-> "", cache |-> <<>>]
       ELSE [raised |-> exc, cache |-> <<>>]

\* load_hash_cache: the dict of the file; {} when there is no file or when
\* reading it raises, which "except Exception" catches
load_hash_cache(file_state, file_dict) ==
    LET exc == IF file_state = "missing" THEN "" ELSE LoadRaises(file_state)
    IN IF file_state = "missing" THEN [raised |-> "", cache |-> <<>>]
       ELSE IF exc = "" THEN [raised |-> "", cache |-> file_dict]
       ELSE IF exc \in ExceptionClasses THEN [raised |-> "", cache |-> <<>>]
       ELSE [raised |-> exc, cache |-> <<>>]

\* what a save can meet: nothing, open() refused, json.dump stopped midway
SaveFaults == {"", "OSError", "TypeError"}

\* save_hash_cache: the file after the call and what the call raises
save_hash_cache(cache, fault, file_state, file_dict) ==
    [raised |-> IF fault \in ExceptionClasses \cup {""} THEN "" ELSE fault,
     state |-> IF fault = "" THEN "json"
               ELSE IF fault = "OSError" THEN file_state
               ELSE "corrupt",
     dict |-> IF fault = "" THEN cache
              ELSE IF fault = "OSError" THEN file_dict
              ELSE <<>>]

\* a cache file left by an earlier run
OldCaches ==
    {<<>>, [k \in {CacheKey("f1", 1, 1, "sha1")} |-> Digest("c1", "sha1")]}

InitPersist ==
    /\ MatchIdle
    /\ CompareIdle
    /\ unreadable = {}
    /\ ScanIdle
    /\ CueIdle
    /\ GamelistIdle
    /\ RenameTabsIdle
    /\ DupIdle
    /\ cache_fs = [q \in CachePaths |-> [content |-> "c1", mtime |-> 1]]
    /\ cache_file_state \in CacheFileStates
    /\ hash_cache_file \in (IF cache_file_state = "json" THEN OldCaches
                            ELSE {<<>>})
    /\ dup_hash_cache = <<>>
    /\ cmp_hash_cache = <<>>
    /\ cached_at = {}
    /\ lookups = <<>>
    /\ persisted_ever = {}
    /\ cache_steps = 0
    /\ writes = 0
    /\ persist_log = [op |-> "none", file |-> "", fault |-> "", raised |-> "",
                      cache |-> <<>>, completed |-> FALSE]

\* DuplicatesTab.__init__: self.hash_cache = load_hash_cache()
LoadCache ==
    /\ cache_steps < MaxCacheSteps
    /\ LET got == load_hash_cache(cache_file_state, hash_cache_file)
       IN /\ dup_hash_cache' = IF got.raised = "" THEN got.cache
                               ELSE dup_hash_cache
          /\ persist_log' = [op |-> "load", file |-> cache_file_state,
                             fault |-> LoadRaises(cache_file_state),
                             raised |-> got.raised, cache |-> got.cache,
                             completed |-> got.raised = ""]
    /\ cache_steps' = cache_steps + 1
    /\ UNCHANGED <<cache_fs, hash_cache_file, cmp_hash_cache, cached_at,
                   lookups, persisted_ever, writes, cache_file_state,
                   notPersist>>

\* _scan_files_worker: the files are hashed, the cache is saved, and the
\* display of the groups is queued when the save returns
ScanAndSave ==
    /\ cache_steps < MaxCacheSteps
    /\ \E scanned \in SUBSET CachePaths \ {{}}, method \in Methods,
          fault \in SaveFaults :
        LET cache == HashAll(dup_hash_cache, cache_fs, scanned, method, 1)
            saved == save_hash_cache(cache, fault, cache_file_state,
                                     hash_cache_file)
        IN /\ dup_hash_cache' = cache
           /\ lookups' = LookupsAfter(dup_hash_cache, scanned, method)
           /\ cached_at' = CachedAtAfter(dup_hash_cache, scanned, method)
           /\ hash_cache_file' = saved.dict
           /\ cache_file_state' = saved.state
           /\ persisted_ever' = persisted_ever \cup DOMAIN saved.dict
           /\ persist_log' = [op |-> "save", file |-> cache_file_state,
                              fault |-> fault, raised |-> saved.raised,
                              cache |-> cache,
                              completed |-> saved.raised = ""]
    /\ cache_steps' = cache_steps + 1
    /\ UNCHANGED <<cache_fs, cmp_hash_cache, writes, notPersist>>

\* the cache file is removed, locked or damaged by something else
CacheFileFault ==
    /\ cache_steps < MaxCacheSteps
    /\ \E st \in CacheFileStates \ {"json", cache_file_state} :
        cache_file_state' = st
    /\ hash_cache_file' = <<>>
    /\ cache_steps' = cache_steps + 1
    /\ UNCHANGED <<cache_fs, dup_hash_cache, cmp_hash_cache, cached_at,
                   lookups, persisted_ever, writes, persist_log,
                   notPersist>>

NextPersist == LoadCache \/ ScanAndSave \/ CacheFileFault

SpecPersist == InitPersist /\ [][NextPersist]_vars

\* C26: loading the cache when the file is missing, unreadable or corrupt
\* raises nothing and gives the empty cache; a save that fails raises
\* nothing, and the scan that called it goes on to completion.
C26_PersistenceNeverFatal ==
    /\ (persist_log.op = "load" /\ persist_log.file # "json") =>
            /\ persist_log.raised = ""
            /\ persist_log.cache = <<>>
            /\ dup_hash_cache = <<>>
    /\ (persist_log.op = "save" /\ persist_log.fault # "") =>
            /\ persist_log.raised = ""
            /\ persist_log.completed

\* the second step of a run loaded a cache file that does not parse
C26_CorruptFileLoaded ==
    /\ persist_log.op = "load"
    /\ persist_log.file = "corrupt"
    /\ persist_log.fault = "JSONDecodeError"
    /\ cache_steps = 2

---------------------------------------------------------------------------
(* The DAT rename flow while another program writes to the folder *)

\* another program puts a file in the folder after the batch was planned
\* and confirmed, while its worker runs
ExternalCreateDuringBatch ==
    /\ ren_pc = "dat_running"
    /\ ExternalCreate

NextDatExternal ==
    \/ DatScan
    \/ ExecuteDatRename
    \/ PerformDatRename
    \/ FinishDatRenames
    \/ ExternalCreateDuringBatch

SpecDatExternal == InitDat /\ [][NextDatExternal]_vars

\* what the files of a folder hold
ContentsOf(d) == {d[n] : n \in DOMAIN d}

\* the contents the folder held when the batch was planned, and those of
\* the files another program has put there since
ContentsToKeep ==
    ContentsOf(pre_disk) \cup (IF external = <<>> THEN {} ELSE {"cx"})

\* C27: while and after a rename batch runs, every file content that was in
\* the folder when the batch was planned, or that came into the folder
\* afterwards, is still there under some name: no rename writes over a
\* file or removes one.
C27_BatchKeepsEveryFile ==
    last_op = "batch" => ContentsToKeep \subseteq ContentsOf(disk)

---------------------------------------------------------------------------
(* What a delete operation leaves on disk and in the tree *)

\* the groups a delete operation processes: those checked when Delete was
\* invoked; the tree stays as it was while the worker runs
Processed == {g \in DOMAIN dup_tree : group_selection[g]}

\* the members of a shown group that are marked Keep
KeepMarked(g) ==
    {dup_tree[g].children[i].path : i \in Keeps(g)}

\* C28: a delete operation removes no member marked Keep, and of every
\* group it processed at least one file is still on disk afterwards.
C28_KeepSurvivesDelete ==
    del_pc = "running" =>
        \A g \in Processed :
            /\ removed \cap KeepMarked(g) = {}
            /\ \E i \in DOMAIN dup_tree[g].children :
                    dup_tree[g].children[i].path \in DOMAIN dup_files

\* a delete operation has removed every file it was to remove, and the
\* group it processed has a member marked Keep
C28_DeletedBesideKeep ==
    /\ del_pc = "running"
    /\ del_idx > Len(files_to_delete)
    /\ Cardinality(removed) >= 2
    /\ \E g \in Processed : KeepMarked(g) # {} /\ Len(dup_tree[g].children) >= 3

\* the first half of C28: no member marked Keep is removed
C28_KeepNotRemoved ==
    del_pc = "running" =>
        \A g \in Processed : removed \cap KeepMarked(g) = {}

\* the groups of the tree that were unchecked when Delete was invoked and
\* have been left unchecked since
UncheckedAtDelete ==
    {g \in DOMAIN dup_tree :
        /\ ~group_selection[g]
        /\ \A i \in DOMAIN dup_tree[g].children :
                dup_tree[g].children[i].path \in del_unchecked}

\* C29: when a delete operation completes, with the redisplay of the
\* groups, every group that was unchecked when Delete was invoked is still
\* shown unchecked, and each of its members has the mark it had.
C29_UncheckedGroupsUntouched ==
    [][Redisplay =>
        \A g \in UncheckedAtDelete :
            \E k \in DOMAIN dup_tree' :
                /\ dup_tree'[k].hash = dup_tree[g].hash
                /\ ~group_selection'[k]
                /\ \A i \in DOMAIN dup_tree[g].children :
                    \E j \in DOMAIN dup_tree'[k].children :
                        /\ dup_tree'[k].children[j].path
                                = dup_tree[g].children[i].path
                        /\ dup_tree'[k].children[j].action
                                = dup_tree[g].children[i].action]_vars

====
